---- MODULE Spec2Model ----
(***************************************************************************)
(* A model of the conversational-portfolio backend: the chat turn pipeline *)
(* (portfolio/views.py chat_query), the stores it reads and writes         *)
(* (portfolio/models.py), the admin console that authors those stores      *)
(* (portfolio/admin.py), the response generator (portfolio/services.py),   *)
(* the moderation filter (portfolio/utils.py) and the voice synthesizer    *)
(* (portfolio/voice_service.py).                                           *)
(*                                                                         *)
(* Text is a sequence of one-character strings, so that strip(), lower(),  *)
(* split() and the substring tests are computed the way the code computes  *)
(* them.                                                                   *)
(***************************************************************************)
EXTENDS Integers, Sequences, FiniteSets, TLC

VARIABLES
    chat_rate,      \* cache entry chat_rate_<ip>: [count, ttl] per client address
    voice_rate,     \* cache entry voice_rate_<ip>: [count, ttl] per client address
    sent,           \* history: chat requests that read the counter since it was last empty
    admitted,       \* history: chat requests the rate limiter let pass since then
    idle_for,       \* history: seconds since the limiter last let a chat request of the client pass
    conversations,  \* Conversation rows by session_id (NoRow where there is none)
    messages,       \* Message rows of each conversation, in creation (timestamp) order
    faqs,           \* FAQ rows by id (NoRow where there is none)
    projects,       \* number of Project rows
    tts_key,        \* settings.ELEVENLABS_API_KEY is configured
    pc,             \* where each web worker stands in chat_query
    req,            \* the locals of the chat_query call each worker is running
    last            \* the reply (and what it was computed from) of the latest finished operation

vars == <<chat_rate, voice_rate, sent, admitted, idle_for, conversations, messages, faqs, projects,
          tts_key, pc, req, last>>

-----------------------------------------------------------------------------
(* Text helpers: Python's str methods on sequences of characters.           *)

LOWERS == <<"a","b","c","d","e","f","g","h","i","j","k","l","m",
            "n","o","p","q","r","s","t","u","v","w","x","y","z">>
UPPERS == <<"A","B","C","D","E","F","G","H","I","J","K","L","M",
            "N","O","P","Q","R","S","T","U","V","W","X","Y","Z">>
DIGITS == {"0","1","2","3","4","5","6","7","8","9"}
WHITESPACE == {" ", "\t", "\n", "\r"}

Range(s) == { s[i] : i \in DOMAIN s }

UPPER_SET == Range(UPPERS)
LOWER_SET == Range(LOWERS)

IsUpper(c) == c \in UPPER_SET
IsLower(c) == c \in LOWER_SET
\* \w of the re module, on ASCII text
IsWordChar(c) == IsUpper(c) \/ IsLower(c) \/ c \in DIGITS \/ c = "_"
IsSpace(c) == c \in WHITESPACE

\* str.lower() on one character
LowerChar(c) ==
    IF IsUpper(c) THEN LOWERS[CHOOSE i \in DOMAIN UPPERS : UPPERS[i] = c] ELSE c

\* str.lower()
Lower(s) == [i \in DOMAIN s |-> LowerChar(s[i])]

\* str.strip()
Strip(s) ==
    LET keep == { i \in DOMAIN s : ~IsSpace(s[i]) }
    IN  IF keep = {} THEN <<>>
        ELSE LET lo == CHOOSE i \in keep : \A j \in keep : i <= j
                 hi == CHOOSE i \in keep : \A j \in keep : j <= i
             IN  SubSeq(s, lo, hi)

\* str.split() with no argument: the maximal runs of non-whitespace characters
Split(s) ==
    LET starts == { i \in DOMAIN s : ~IsSpace(s[i]) /\ (i = 1 \/ IsSpace(s[i-1])) }
        EndOf(i) == CHOOSE j \in i..Len(s) :
                        /\ \A k \in i..j : ~IsSpace(s[k])
                        /\ (j = Len(s) \/ IsSpace(s[j+1]))
        RECURSIVE Build(_)
        Build(from) ==
            LET rest == { i \in starts : i >= from }
            IN  IF rest = {} THEN <<>>
                ELSE LET i == CHOOSE x \in rest : \A y \in rest : x <= y
                     IN  <<SubSeq(s, i, EndOf(i))>> \o Build(EndOf(i) + 1)
    IN  Build(1)

\* ' '.join(words)
RECURSIVE Join(_)
Join(words) ==
    IF words = <<>> THEN <<>>
    ELSE IF Len(words) = 1 THEN words[1]
    ELSE words[1] \o <<" ">> \o Join(Tail(words))

\* w in s, for two strings
Contains(s, w) ==
    \E i \in 1..(Len(s) - Len(w) + 1) : SubSeq(s, i, i + Len(w) - 1) = w

\* set(re.findall(r'\b\w+\b', s)): the maximal runs of word characters
WordsOf(s) ==
    { SubSeq(s, i, j) : <<i, j>> \in
        { p \in (DOMAIN s) \X (DOMAIN s) :
            /\ p[1] <= p[2]
            /\ \A k \in p[1]..p[2] : IsWordChar(s[k])
            /\ (p[1] = 1 \/ ~IsWordChar(s[p[1]-1]))
            /\ (p[2] = Len(s) \/ ~IsWordChar(s[p[2]+1])) } }

-----------------------------------------------------------------------------
(* Moderation filter: portfolio/utils.py                                    *)

PROFANITY_WORDS ==
    { <<"d","a","m","n">>,
      <<"h","e","l","l">>,
      <<"c","r","a","p">>,
      <<"s","t","u","p","i","d">>,
      <<"i","d","i","o","t">>,
      <<"m","o","r","o","n">>,
      <<"d","u","m","b">>,
      <<"s","u","c","k">>,
      <<"s","u","c","k","s">>,
      <<"h","a","t","e">>,
      <<"k","i","l","l">>,
      <<"d","i","e">>,
      <<"d","e","a","t","h">>,
      <<"m","u","r","d","e","r">>,
      <<"a","s","s","a","u","l","t">>,
      <<"a","t","t","a","c","k">>,
      <<"v","i","o","l","e","n","c","e">>,
      <<"s","p","a","m">>,
      <<"s","c","a","m">>,
      <<"f","r","a","u","d">>,
      <<"f","a","k","e">>,
      <<"b","o","t">>,
      <<"a","u","t","o","m","a","t","e","d">>,
      <<"f","u","c","k">>,
      <<"s","h","i","t">>,
      <<"b","i","t","c","h">>,
      <<"b","a","s","t","a","r","d">>,
      <<"a","s","s">>,
      <<"a","s","s","h","o","l","e">>,
      <<"f","a","g">>,
      <<"f","a","g","g","o","t">>,
      <<"c","u","n","t">> }

ACCEPTABLE_WORDS ==
    { <<"s","k","i","l","l","s">>,
      <<"s","k","i","l","l","e","d">>,
      <<"s","k","i","l","l","f","u","l">>,
      <<"s","k","i","l","l","f","u","l","l","y">>,
      <<"s","k","i","l","l","e","t">>,
      <<"s","k","i","l","l">>,
      <<"c","l","a","s","s","i","c","a","l">>,
      <<"g","l","a","s","s","e","s">>,
      <<"c","l","a","s","s">>,
      <<"m","a","s","s","a","g","e">>,
      <<"a","s","s","e","s","s">>,
      <<"a","s","s","e","s","s","m","e","n","t">>,
      <<"a","s","s","a","s","s","i","n">>,
      <<"a","s","s","i","s","t","a","n","c","e">>,
      <<"a","s","s","i","s","t","a","n","t">>,
      <<"p","a","s","s","i","o","n">>,
      <<"p","a","s","s","i","o","n","a","t","e">> }

MIN_MESSAGE_LEN == 3
MAX_MESSAGE_LEN == 500

\* the characters [a-zA-Z0-9\s\.\?\!\,\'\"] that do not count as special
IsPlainChar(c) ==
    IsUpper(c) \/ IsLower(c) \/ c \in DIGITS \/ IsSpace(c)
        \/ c \in {".", "?", "!", ",", "'", "\""}

\* re.search(r'(.)\1{4,}', message): one character five or more times in a row
HasRepeatedChars(m) ==
    \E i \in 1..(Len(m) - 4) :
        /\ m[i] # "\n"
        /\ \A k \in 1..4 : m[i + k] = m[i]

\* the profanity words found in the message and not explained by a whitelisted
\* word of the message
FoundProfanity(m) ==
    LET message_lower == Lower(m)
        acceptable_found == WordsOf(message_lower) \cap ACCEPTABLE_WORDS
    IN  { word \in PROFANITY_WORDS :
            /\ Contains(message_lower, word)
            /\ ~ \E acceptable \in acceptable_found : Contains(acceptable, word) }

\* a length check that lets two characters through
TooShort_ByOne(n) == n < MIN_MESSAGE_LEN - 1

\* len(message) < 3 and len(message) > 500
TooShort(n) == n < MIN_MESSAGE_LEN
TooLong(n) == n > MAX_MESSAGE_LEN

\* validate_message_content(message) -> (is_valid, error_message)
validate_message_content(raw) ==
    LET message == Strip(raw)
        n == Len(message)
        special == Cardinality({ i \in DOMAIN message : ~IsPlainChar(message[i]) })
        caps == Cardinality({ i \in DOMAIN message : IsUpper(message[i]) })
        words == Split(message)
        unique_words == { Lower(words[i]) : i \in DOMAIN words }
    IN  IF TooShort(n) THEN
            [is_valid |-> FALSE, error |-> "Message too short (minimum 3 characters)"]
        ELSE IF TooLong(n) THEN
            [is_valid |-> FALSE, error |-> "Message too long (maximum 500 characters)"]
        ELSE IF 10 * special > 3 * n THEN
            [is_valid |-> FALSE, error |-> "Message contains too many special characters"]
        ELSE IF HasRepeatedChars(message) THEN
            [is_valid |-> FALSE, error |-> "Message contains excessive repeated characters"]
        ELSE IF n > 10 /\ 10 * caps > 7 * n THEN
            [is_valid |-> FALSE, error |-> "Message contains excessive capital letters"]
        ELSE IF FoundProfanity(message) # {} THEN
            [is_valid |-> FALSE, error |-> "Message contains inappropriate content"]
        ELSE IF Len(words) > 3 /\ 2 * Cardinality(unique_words) < Len(words) THEN
            [is_valid |-> FALSE, error |-> "Message appears to be spam"]
        ELSE [is_valid |-> TRUE, error |-> ""]

\* the last three entries of a list: previous_messages[-3:]
LastThree(seq) ==
    IF Len(seq) <= 3 THEN seq ELSE SubSeq(seq, Len(seq) - 2, Len(seq))

\* is_suspicious_pattern(message, previous_messages)
is_suspicious_pattern(message, previous_messages) ==
    /\ previous_messages # <<>>
    /\ \E i \in DOMAIN LastThree(previous_messages) :
          Lower(Strip(message)) = Lower(Strip(LastThree(previous_messages)[i]))

-----------------------------------------------------------------------------
(* Bounds and input domains of the model.                                   *)

\* messages the admin console adds to one conversation: where chat requests are
\* handled one after another, where two workers handle them concurrently, and
\* where audio is requested for them
MaxMsgs == 1
MaxMsgsConc == 2
MaxMsgsVoice == 2

Workers == {"w1", "w2"}
IPs == {"ip1", "ip2"}
OneClient == {"ip1"}
Sessions == {"s1", "s2"}
\* the conversations the admin console authors (any other id is fresh for uuid4)
AdminSessions == {"s1"}
NoSession == "none"
FAQIds == {1}
NoFAQ == 0

Q_SHORT == <<"h","i">>
Q_SKILLS == <<"m","y"," ","s","k","i","l","l","s">>
Q_WORK == <<"y","o","u","r"," ","w","o","r","k">>
R_PY == <<"I"," ","u","s","e"," ","P","y","t","h","o","n">>
R_OTHER == <<"I"," ","d","e","s","i","g","n">>

\* a query typed with other capitals and a leading blank, and a stored message
\* with capitals and a trailing blank
Q_SKILLS_LOUD == <<" ","M","Y"," ","s","k","i","l","l","s">>
C_SKILLS == <<"M","y"," ","S","k","i","l","l","s"," ">>
\* the queries sent to a conversation that already holds messages
RepeatQueries == { Q_SKILLS_LOUD, Q_SKILLS, Q_WORK }

\* request bodies: the query of a chat request
Queries == { <<>>, Q_SHORT, Q_SKILLS, Q_WORK }
\* replies of the chat-completion provider
Replies == { R_PY, R_OTHER }

\* validate_message_content on the queries of the model, computed once
Moderation ==
    [q \in { Strip(x) : x \in Queries \cup RepeatQueries } |-> validate_message_content(q)]

-----------------------------------------------------------------------------
(* The cache: django.core.cache, entries with a time-to-live.               *)

RATE_WINDOW == 60
CHAT_RATE_LIMIT == 10
VOICE_RATE_LIMIT == 5
SESSION_CAP == 50

NoEntry == [count |-> 0, ttl |-> 0]

\* cache.get(key, 0)
CacheGet(entry) == IF entry.ttl > 0 THEN entry.count ELSE 0

\* cache.set(key, value, 60)
CacheSet(value) == [count |-> value, ttl |-> RATE_WINDOW]

\* a cache whose entries never expire
Aged_Never(entry, d) == entry

\* an entry after d seconds: it is gone once its time-to-live has run out
Aged(entry, d) ==
    IF entry.ttl > d THEN [entry EXCEPT !.ttl = entry.ttl - d] ELSE NoEntry

\* a limiter that increments the stored counter in one step
NextCount_Atomic(recent_requests, stored) == stored + 1

\* cache.set(ip_key, recent_requests + 1, 60): the value written is made from
\* the count read at line 47, whatever the cache holds by now
NextCount(recent_requests, stored) == recent_requests + 1

\* a limiter that refuses nobody
ChatRateExceeded_Never(recent_requests) == FALSE

\* recent_requests >= 10 (views.py, chat_query)
ChatRateExceeded(recent_requests) == recent_requests >= CHAT_RATE_LIMIT

\* a cap that lets the 50th message through: > where the code has >=
SessionCapReached_OffByOne(total_messages) == total_messages > SESSION_CAP

\* existing_conversation.total_messages >= 50 (views.py, chat_query)
SessionCapReached(total_messages) == total_messages >= SESSION_CAP

-----------------------------------------------------------------------------
(* The stores: portfolio/models.py                                          *)

NoText == <<>>
NoAudio == "none"

\* a Conversation row
NoConversation == [exists |-> FALSE, total_messages |-> 0, ip_address |-> "none"]
NewConversation(ip) == [exists |-> TRUE, total_messages |-> 0, ip_address |-> ip]

\* a Message row (Message.objects.create with the fields chat_query passes)
MessageRow(order, type, content, faq) ==
    [ order_in_session |-> order, message_type |-> type, content |-> content,
      source_faq |-> faq, audio_file |-> NoAudio,
      slide_title |-> NoText, slide_body |-> NoText ]

\* a FAQ row
NoFAQRow == [exists |-> FALSE, response |-> NoText, is_active |-> FALSE,
             audio_file |-> NoAudio]

\* the model fields of FAQ and of Message (what a freshly loaded instance has,
\* and what save() accepts in update_fields)
FAQ_FIELDS == { "question", "response", "media_urls", "is_featured", "is_active",
                "priority", "created_at", "updated_at", "audio_file",
                "audio_generated_at", "audio_generation_time_ms" }
MESSAGE_FIELDS == { "conversation", "message_type", "content", "timestamp",
                    "response_time_ms", "token_count", "order_in_session",
                    "response_length", "audio_file", "audio_generated_at",
                    "audio_generation_time_ms", "slide_title", "slide_body",
                    "source_faq" }

\* a Message table without the unique_together constraint
OrderTaken_NoConstraint(rows, order) == FALSE

\* unique_together = ['conversation', 'order_in_session']
OrderTaken(rows, order) == \E i \in DOMAIN rows : rows[i].order_in_session = order

\* conversation.messages.filter(message_type='user_query')
\*     .order_by('-timestamp')[:3].values_list('content', flat=True)
RECURSIVE UserContents(_)
UserContents(rows) ==
    IF rows = <<>> THEN <<>>
    ELSE LET rest == UserContents(Tail(rows))
         IN  IF Head(rows).message_type = "user_query"
             THEN <<Head(rows).content>> \o rest ELSE rest

Reverse(seq) == [i \in DOMAIN seq |-> seq[Len(seq) + 1 - i]]

\* the same query without the [:3] slice
recent_user_messages_All(rows) == Reverse(UserContents(rows))

recent_user_messages(rows) ==
    LET newest_first == Reverse(UserContents(rows))
    IN  IF Len(newest_first) <= 3 THEN newest_first ELSE SubSeq(newest_first, 1, 3)

-----------------------------------------------------------------------------
(* Response generator: portfolio/services.py                                *)

\* the fixed sentence generate_response returns when anything fails
APOLOGY ==
    <<"I","'","m"," ","s","o","r","r","y",","," ","I","'","m"," ","h","a","v","i","n","g"," ","t","r","o","u","b","l","e"," ","p","r","o","c","e","s","s","i","n","g"," ","y","o","u","r"," ","q","u","e","s","t","i","o","n"," ","r","i","g","h","t"," ","n","o","w","."," ","C","o","u","l","d"," ","y","o","u"," ","p","l","e","a","s","e"," ","t","r","y"," ","a","g","a","i","n"," ","i","n"," ","a"," ","m","o","m","e","n","t","?">>

\* get_portfolio_context reads project.case_studies for every project, but
\* CaseStudy.project is a OneToOneField with related_name='case_study': the
\* attribute does not exist and the loop raises as soon as there is a project
get_portfolio_context_raises(n_projects) == n_projects > 0

\* _find_source_faq_for_response: FAQ.objects.filter(response__iexact=cleaned,
\* is_active=True).first(); the reply is whitespace-normalised, the stored
\* response is compared as it is, ignoring case
find_source_faq_for_response(response_text, faq_rows) ==
    LET cleaned_response == Strip(Join(Split(response_text)))
        exact_match == { f \in DOMAIN faq_rows :
                            /\ faq_rows[f].exists
                            /\ faq_rows[f].is_active
                            /\ Lower(faq_rows[f].response) = Lower(cleaned_response) }
    IN  IF exact_match = {} THEN NoFAQ
        ELSE CHOOSE f \in exact_match : \A g \in exact_match : f >= g

\* generate_follow_up_suggestions: a second provider call, with canned
\* suggestions when it fails (the list itself is not modelled)
generate_follow_up_suggestions(followup_ok) ==
    IF followup_ok THEN <<"generated">> ELSE <<"fallback">>

\* generate_response(user_query, response_length): the tuple it returns, and the
\* number of calls it made to the chat-completion provider to get it.
\* llm = [ok, text, followup_ok] is what the provider does when called.
generate_response(user_query, llm, faq_rows, n_projects) ==
    IF get_portfolio_context_raises(n_projects) THEN
        [value |-> <<APOLOGY, NoFAQ, <<>>>>, provider_calls |-> 0]
    ELSE IF ~llm.ok THEN
        [value |-> <<APOLOGY, NoFAQ, <<>>>>, provider_calls |-> 1]
    ELSE
        LET response_text == Strip(llm.text)
        IN  [value |-> << response_text,
                          find_source_faq_for_response(response_text, faq_rows),
                          generate_follow_up_suggestions(llm.followup_ok) >>,
             provider_calls |-> 2]

LLMOutcomes ==
    { [ok |-> TRUE, text |-> r, followup_ok |-> f] : r \in Replies, f \in BOOLEAN }
        \cup { [ok |-> FALSE, text |-> NoText, followup_ok |-> FALSE] }

-----------------------------------------------------------------------------
(* Slide synthesizer, as far as the chat turn depends on it:                *)
(* portfolio/slide_service.py generate_slide_for_message                    *)

SLIDE_TITLE == <<"T">>
SLIDE_BODY == <<"B">>

\* message_obj.save(update_fields=[...]) raises ValueError for a name that is
\* no field of the model
UpdateFieldsAccepted(update_fields) == update_fields \subseteq MESSAGE_FIELDS

\* generate_slide_for_message(message_obj): the instance in memory gets the
\* slide (its text is not modelled); the row gets it only if save() accepts
\* update_fields=['slide_title', 'slide_body', 'slide_media_urls'].
\* Returns [memory, row]: the instance afterwards and the stored row afterwards.
generate_slide_for_message(row) ==
    LET with_slide == [row EXCEPT !.slide_title = SLIDE_TITLE, !.slide_body = SLIDE_BODY]
    IN  IF row.message_type # "ai_response" THEN [memory |-> row, row |-> row]
        ELSE IF UpdateFieldsAccepted({"slide_title", "slide_body", "slide_media_urls"})
             THEN [memory |-> with_slide, row |-> with_slide]
             ELSE [memory |-> with_slide, row |-> row]

-----------------------------------------------------------------------------
(* The chat turn: portfolio/views.py chat_query                             *)

\* session ids uuid4 can still hand out to a conversation created by a turn
TurnSessions == Sessions \ AdminSessions
\* the session_id field of a request: absent, a known one, or one never stored
RequestSessions == {NoSession} \cup AdminSessions \cup {"s2"}

NoReq == [ ip |-> "none", query |-> NoText, session_id |-> NoSession,
           recent_requests |-> 0, nth |-> 0, seen_total |-> -1,
           conversation |-> NoSession, created |-> FALSE, next_order |-> 0 ]

NoReply == [ op |-> "none", status |-> 0, stage |-> "none", nth |-> 0,
             session_id |-> NoSession, response |-> NoText, source_faq |-> NoFAQ,
             message_count |-> 0, provider_calls |-> 0,
             message |-> <<>>, provider |-> NoAudio, tts_calls |-> 0,
             ip |-> "none", input |-> NoText,
             query |-> NoText, slide_title |-> NoText, slide_body |-> <<>>,
             outcome |-> "none" ]

\* the place of a request in its window, kept in the reply only where the rate
\* limit turns: the 10th and the 11th request
WindowPlace(nth) ==
    IF nth \in {CHAT_RATE_LIMIT, CHAT_RATE_LIMIT + 1} THEN nth ELSE 0

\* the JsonResponse of chat_query, with the stage of the handler that sent it
ChatReply(r, status, stage) ==
    [ NoReply EXCEPT !.op = "chat", !.status = status, !.stage = stage,
                     !.nth = r.nth ]

\* the tuple generate_response returns unpacks into the targets of
\* `ai_response, source_faq = ...` only if it has as many values
UnpacksInto(value, n_targets) == Len(value) = n_targets

\* a turn without transaction.atomic(): what was written before the exception stays
TxnOnException_NoAtomic(committed, working) == working

\* with transaction.atomic(): an exception inside the block discards what the
\* block wrote, and the stores are as they were committed
TxnOnException(committed, working) == committed

\* a database in which the update of a row locks nothing
RowLocked_None(s) == FALSE

\* the row lock conversation.save(update_fields=['last_activity']) takes on the
\* Conversation row until the transaction ends
RowLocked(s) ==
    \E q \in Workers : pc[q] = "llm" /\ req[q].conversation = s /\ ~req[q].created

\* ids uuid4 may give worker p's new conversation
FreshSessions(p) ==
    { s \in TurnSessions :
        /\ ~conversations[s].exists
        /\ ~ \E q \in Workers \ {p} : pc[q] = "llm" /\ req[q].conversation = s }

\* the stores as the transaction of worker p sees them once it has written rows
Working(convs, msgs, r, rows) ==
    [ conversations |->
          IF r.created THEN [convs EXCEPT ![r.conversation] = NewConversation(r.ip)]
          ELSE convs,
      messages |-> [msgs EXCEPT ![r.conversation] = rows] ]

Committed == [conversations |-> conversations, messages |-> messages]

\* lines 29-47: parse the body, refuse an empty query, read the rate counter
ChatReceive(p, ip, raw_query, session_id) ==
    /\ pc[p] = "idle"
    /\ LET user_query == Strip(raw_query)
       IN  IF user_query = <<>>
           THEN /\ last' = [ NoReply EXCEPT !.op = "chat", !.status = 400,
                                            !.stage = "empty" ]
                /\ UNCHANGED <<pc, req, sent>>
           ELSE /\ sent' = [sent EXCEPT ![ip] =
                                IF @ > CHAT_RATE_LIMIT THEN @ ELSE @ + 1]
                /\ req' = [req EXCEPT ![p] =
                              [ NoReq EXCEPT !.ip = ip, !.query = user_query,
                                             !.session_id = session_id,
                                             !.recent_requests = CacheGet(chat_rate[ip]),
                                             !.nth = WindowPlace(sent'[ip]) ]]
                /\ pc' = [pc EXCEPT ![p] = "admit"]
                /\ UNCHANGED last
    /\ UNCHANGED <<chat_rate, voice_rate, admitted, idle_for, conversations, messages, faqs,
                   projects, tts_key>>

\* lines 48-85: rate limit, moderation, session cap, repeated message
ChatAdmit(p) ==
    /\ pc[p] = "admit"
    /\ LET r == req[p]
           sid == r.session_id
           found == sid # NoSession /\ conversations[sid].exists
           seen == IF found THEN conversations[sid].total_messages ELSE -1
           rs == [r EXCEPT !.seen_total = seen, !.recent_requests = 0]
       IN  IF ChatRateExceeded(r.recent_requests)
           THEN /\ last' = ChatReply(r, 429, "rate")
                /\ pc' = [pc EXCEPT ![p] = "idle"]
                /\ req' = [req EXCEPT ![p] = NoReq]
                /\ UNCHANGED <<chat_rate, admitted, idle_for>>
           ELSE /\ chat_rate' = [chat_rate EXCEPT ![r.ip] =
                                     CacheSet(NextCount(r.recent_requests,
                                                        CacheGet(chat_rate[r.ip])))]
                /\ admitted' = [admitted EXCEPT ![r.ip] =
                                    IF @ > CHAT_RATE_LIMIT THEN @ ELSE @ + 1]
                /\ idle_for' = [idle_for EXCEPT ![r.ip] = 0]
                /\ IF ~Moderation[r.query].is_valid
                   THEN /\ last' = ChatReply(r, 400, "moderation")
                        /\ pc' = [pc EXCEPT ![p] = "idle"]
                        /\ req' = [req EXCEPT ![p] = NoReq]
                   ELSE IF found /\ SessionCapReached(seen)
                   THEN /\ last' = ChatReply(rs, 429, "cap")
                        /\ pc' = [pc EXCEPT ![p] = "idle"]
                        /\ req' = [req EXCEPT ![p] = NoReq]
                   ELSE IF found /\ is_suspicious_pattern(r.query,
                                        recent_user_messages(messages[sid]))
                   THEN /\ last' = ChatReply(rs, 400, "duplicate")
                        /\ pc' = [pc EXCEPT ![p] = "idle"]
                        /\ req' = [req EXCEPT ![p] = NoReq]
                   ELSE /\ pc' = [pc EXCEPT ![p] = "txn"]
                        /\ req' = [req EXCEPT ![p] = rs]
                        /\ UNCHANGED last
    /\ UNCHANGED <<voice_rate, sent, conversations, messages, faqs, projects, tts_key>>

\* lines 87-119: open the transaction, get or create the conversation, count
\* its messages and insert the user message
ChatBegin(p) ==
    /\ pc[p] = "txn"
    /\ LET r == req[p]
           sid == r.session_id
           found == sid # NoSession /\ conversations[sid].exists
       IN  /\ found => ~RowLocked(sid)
           /\ ~found => FreshSessions(p) # {}
           /\ \E conv \in IF found THEN {sid} ELSE FreshSessions(p) :
                LET rows == IF found THEN messages[conv] ELSE <<>>
                    next_order == Len(rows) + 1
                    rb == [r EXCEPT !.conversation = conv, !.created = ~found,
                                    !.next_order = next_order]
                    after == TxnOnException(Committed,
                                            Working(conversations, messages, rb, rows))
                IN  IF OrderTaken(rows, next_order)
                    THEN \* IntegrityError on the user message
                         /\ conversations' = after.conversations
                         /\ messages' = after.messages
                         /\ last' = ChatReply(rb, 500, "turn")
                         /\ pc' = [pc EXCEPT ![p] = "idle"]
                         /\ req' = [req EXCEPT ![p] = NoReq]
                    ELSE /\ pc' = [pc EXCEPT ![p] = "llm"]
                         /\ req' = [req EXCEPT ![p] = rb]
                         /\ UNCHANGED <<conversations, messages, last>>
    /\ UNCHANGED <<chat_rate, voice_rate, sent, admitted, idle_for, faqs, projects, tts_key>>

\* lines 121-159 and 165-169: generate the reply, store the AI message and the
\* slide, update the counter, commit and answer; on any exception roll back
\* and answer 500
ChatGenerate(p, llm) ==
    /\ pc[p] = "llm"
    /\ LET r == req[p]
           conv == r.conversation
           user_message == MessageRow(r.next_order, "user_query", r.query, NoFAQ)
           rows1 == (IF r.created THEN <<>> ELSE messages[conv]) \o <<user_message>>
           generated == generate_response(r.query, llm, faqs, projects)
           failed == TxnOnException(Committed,
                                    Working(conversations, messages, r, rows1))
       IN  IF ~UnpacksInto(generated.value, 2)
           THEN \* ValueError: too many values to unpack
                /\ conversations' = failed.conversations
                /\ messages' = failed.messages
                /\ last' = [ ChatReply(r, 500, "turn") EXCEPT
                                !.provider_calls = generated.provider_calls ]
           ELSE LET ai_response == generated.value[1]
                    source_faq == generated.value[2]
                    ai_message == MessageRow(r.next_order + 1, "ai_response",
                                             ai_response, source_faq)
                    slide == generate_slide_for_message(ai_message)
                    rows2 == rows1 \o <<slide.row>>
                    done == Working(conversations, messages, r, rows2)
                IN  IF OrderTaken(rows1, r.next_order + 1)
                    THEN \* IntegrityError on the AI message
                         /\ conversations' = failed.conversations
                         /\ messages' = failed.messages
                         /\ last' = [ ChatReply(r, 500, "turn") EXCEPT
                                         !.provider_calls = generated.provider_calls ]
                    ELSE /\ conversations' =
                              [ done.conversations EXCEPT
                                  ![conv].total_messages = Len(rows2) ]
                         /\ messages' = done.messages
                         /\ last' = [ ChatReply(r, 200, "turn") EXCEPT
                                         !.response = ai_response,
                                         !.source_faq = source_faq,
                                         !.session_id = conv,
                                         !.message_count = Len(rows2),
                                         !.slide_title = slide.memory.slide_title,
                                         !.slide_body = slide.memory.slide_body,
                                         !.provider_calls = generated.provider_calls ]
    /\ pc' = [pc EXCEPT ![p] = "idle"]
    /\ req' = [req EXCEPT ![p] = NoReq]
    /\ UNCHANGED <<chat_rate, voice_rate, sent, admitted, idle_for, faqs, projects, tts_key>>

-----------------------------------------------------------------------------
(* Time, and the admin console: portfolio/admin.py                          *)

\* d seconds pass: cache entries age and expire
Tick(d) ==
    /\ \E ip \in IPs : chat_rate[ip].ttl > 0 \/ voice_rate[ip].ttl > 0
    /\ chat_rate' = [ip \in IPs |-> Aged(chat_rate[ip], d)]
    /\ voice_rate' = [ip \in IPs |-> Aged(voice_rate[ip], d)]
    /\ sent' = [ip \in IPs |-> IF chat_rate'[ip].ttl = 0 THEN 0 ELSE sent[ip]]
    /\ admitted' = [ip \in IPs |-> IF chat_rate'[ip].ttl = 0 THEN 0 ELSE admitted[ip]]
    /\ idle_for' = [ip \in IPs |-> IF idle_for[ip] + d > RATE_WINDOW THEN RATE_WINDOW
                                     ELSE idle_for[ip] + d]
    /\ UNCHANGED <<conversations, messages, faqs, projects, tts_key, pc, req, last>>

\* the values an operator types into the total_messages field
TotalChoices == {0, SESSION_CAP - 1, SESSION_CAP, SESSION_CAP + 1}

\* ConversationAdmin: add a conversation, or edit its Statistics fieldset
AdminSaveConversation(s, total) ==
    /\ ~RowLocked(s)
    /\ conversations[s] # [NewConversation("admin") EXCEPT !.total_messages = total]
    /\ conversations' = [conversations EXCEPT ![s] =
                            [NewConversation("admin") EXCEPT !.total_messages = total]]
    /\ UNCHANGED <<chat_rate, voice_rate, sent, admitted, idle_for, messages, faqs, projects, tts_key,
                   pc, req, last>>

\* MessageAdmin: add a message (the form validates unique_together)
AdminAddMessage(s, order, type, content, faq, max_rows) ==
    /\ conversations[s].exists
    /\ Len(messages[s]) < max_rows
    /\ ~OrderTaken(messages[s], order)
    /\ ~ \E q \in Workers : /\ pc[q] = "llm" /\ req[q].conversation = s
                            /\ req[q].next_order = order
    /\ faq # NoFAQ => faqs[faq].exists
    /\ messages' = [messages EXCEPT ![s] = Append(@, MessageRow(order, type, content, faq))]
    /\ UNCHANGED <<chat_rate, voice_rate, sent, admitted, idle_for, conversations, faqs, projects, tts_key,
                   pc, req, last>>

\* the orders an operator types into the order_in_session field: the next one,
\* or one further, which leaves a gap
AdminOrders(s) == (Len(messages[s]) + 1)..(Len(messages[s]) + 2)

\* ProjectAdmin: add a project
AdminAddProject ==
    /\ projects = 0
    /\ projects' = 1
    /\ UNCHANGED <<chat_rate, voice_rate, sent, admitted, idle_for, conversations, messages, faqs, tts_key,
                   pc, req, last>>

-----------------------------------------------------------------------------
(* Voice synthesis: portfolio/voice_service.py, the post_save signal of     *)
(* portfolio/models.py and generate_message_audio of portfolio/views.py.    *)
(* Audio is its bytes; what the text-to-speech provider does when called    *)
(* is an input: the bytes it returns, NoAudio when the call raises or       *)
(* returns nothing.                                                         *)

\* a has_audio that never sees the stored file
has_audio_Never(row) == FALSE

\* has_audio of FAQ and of Message: bool(self.audio_file and self.audio_file.name)
has_audio(row) == row.audio_file # NoAudio

\* ElevenLabs(api_key=settings.ELEVENLABS_API_KEY): without a key every call fails
Provider(key, outcome) == IF key THEN outcome ELSE NoAudio

\* generate_audio_with_timestamps(text): (None, None) for empty text without
\* calling the provider, (None, None) when the call fails, else the bytes (the
\* estimated timestamps it returns with them are stored nowhere, see below)
generate_audio_with_timestamps(text, outcome) ==
    IF Strip(text) = <<>>
    THEN [audio_data |-> NoAudio, tts_calls |-> 0]
    ELSE [audio_data |-> outcome, tts_calls |-> 1]

\* obj.<name> on an instance loaded from its table: AttributeError unless name
\* is a field of the model
HasAttribute(fields, name) == name \in fields

\* _copy_faq_audio_to_message(faq_obj, message_obj): the file is written with
\* save=False, and the row is written by message_obj.save() only after
\* faq_obj.audio_word_timestamps has been read; an exception returns False
copy_faq_audio_to_message(faq_row, row, faq_rows) ==
    IF ~has_audio(faq_row)
    THEN [success |-> FALSE, row |-> row, faq_rows |-> faq_rows, tts_calls |-> 0]
    ELSE IF ~HasAttribute(FAQ_FIELDS, "audio_word_timestamps")
    THEN [success |-> FALSE, row |-> row, faq_rows |-> faq_rows, tts_calls |-> 0]
    ELSE [success |-> TRUE, row |-> [row EXCEPT !.audio_file = faq_row.audio_file],
          faq_rows |-> faq_rows, tts_calls |-> 0]

\* a synthesis path that also stores the new audio on the message's source FAQ
SaveSynthesizedAudio_BackFill(row, faq_rows, audio_data) ==
    [ row |-> [row EXCEPT !.audio_file = audio_data],
      faq_rows |-> IF row.source_faq # NoFAQ
                   THEN [faq_rows EXCEPT ![row.source_faq].audio_file = audio_data]
                   ELSE faq_rows ]

\* message_obj.audio_file.save(filename, audio_file, save=False) ...
\* message_obj.save(): the message row gets the audio (audio_word_timestamps
\* is no field of Message and is not stored); no FAQ is written
SaveSynthesizedAudio(row, faq_rows, audio_data) ==
    [ row |-> [row EXCEPT !.audio_file = audio_data], faq_rows |-> faq_rows ]

\* a service that does not look for stored audio first
AudioAlreadyExists_Unchecked(row) == FALSE

\* if message_obj.has_audio: return True (voice_service.py, before any other
\* source of audio is considered)
AudioAlreadyExists(row) == has_audio(row)

\* generate_and_save_audio_for_message(message_obj): whether it succeeded, the
\* stored message row and FAQ rows afterwards, and the provider calls it made
generate_and_save_audio_for_message(row, faq_rows, outcome) ==
    IF row.message_type # "ai_response"
    THEN [success |-> FALSE, row |-> row, faq_rows |-> faq_rows, tts_calls |-> 0]
    ELSE IF AudioAlreadyExists(row)
    THEN [success |-> TRUE, row |-> row, faq_rows |-> faq_rows, tts_calls |-> 0]
    ELSE IF row.source_faq # NoFAQ /\ has_audio(faq_rows[row.source_faq])
    THEN copy_faq_audio_to_message(faq_rows[row.source_faq], row, faq_rows)
    ELSE LET generated == generate_audio_with_timestamps(row.content, outcome)
         IN  IF generated.audio_data = NoAudio
             THEN [success |-> FALSE, row |-> row, faq_rows |-> faq_rows,
                   tts_calls |-> generated.tts_calls]
             ELSE LET saved == SaveSynthesizedAudio(row, faq_rows, generated.audio_data)
                  IN  [success |-> TRUE, row |-> saved.row, faq_rows |-> saved.faq_rows,
                       tts_calls |-> generated.tts_calls]

\* generate_and_save_audio_for_faq(faq_obj): the FAQ row afterwards
generate_and_save_audio_for_faq(faq_row, outcome) ==
    IF Strip(faq_row.response) = <<>> THEN [success |-> FALSE, row |-> faq_row]
    ELSE IF has_audio(faq_row) THEN [success |-> TRUE, row |-> faq_row]
    ELSE LET generated == generate_audio_with_timestamps(faq_row.response, outcome)
         IN  IF generated.audio_data = NoAudio
             THEN [success |-> FALSE, row |-> faq_row]
             ELSE [success |-> TRUE,
                   row |-> [faq_row EXCEPT !.audio_file = generated.audio_data]]

\* post_save receiver generate_faq_audio: the FAQ row after the signal
generate_faq_audio(instance, outcome) ==
    IF instance.response # NoText /\ ~has_audio(instance)
    THEN generate_and_save_audio_for_faq(instance, outcome).row
    ELSE instance

\* a voice limiter that admits the 6th request: > where the code has >=
VoiceRateExceeded_OffByOne(recent_voice_requests) ==
    recent_voice_requests > VOICE_RATE_LIMIT

\* recent_voice_requests >= 5 (views.py, generate_voice and generate_message_audio)
VoiceRateExceeded(recent_voice_requests) == recent_voice_requests >= VOICE_RATE_LIMIT

\* a view that leaves the type check to the voice service
NotAnAIResponse_Unchecked(row) == FALSE

\* message.message_type != 'ai_response' (views.py, generate_message_audio)
NotAnAIResponse(row) == row.message_type # "ai_response"

\* the JsonResponse of generate_message_audio for message i of conversation s,
\* with the client it answers and the place of the request in its window
\* (recent_voice_requests + 1)
AudioReply(ip, nth, s, i, status, stage) ==
    [ NoReply EXCEPT !.op = "audio", !.status = status, !.stage = stage,
                     !.message = <<s, i>>, !.ip = ip, !.nth = nth ]

\* generate_message_audio: POST {message_id}; the message is named by its
\* conversation and its place in it
GenerateMessageAudio(ip, s, i, outcome) ==
    LET recent_voice_requests == CacheGet(voice_rate[ip])
    IN  /\ IF VoiceRateExceeded(recent_voice_requests)
           THEN /\ last' = AudioReply(ip, recent_voice_requests + 1, s, i, 429, "rate")
                /\ UNCHANGED <<voice_rate, messages, faqs>>
           ELSE /\ voice_rate' = [voice_rate EXCEPT
                                     ![ip] = CacheSet(recent_voice_requests + 1)]
                /\ IF i \notin DOMAIN messages[s]
                   THEN /\ last' = AudioReply(ip, recent_voice_requests + 1, s, i, 404, "lookup")
                        /\ UNCHANGED <<messages, faqs>>
                   ELSE IF NotAnAIResponse(messages[s][i])
                   THEN /\ last' = AudioReply(ip, recent_voice_requests + 1, s, i, 400, "type")
                        /\ UNCHANGED <<messages, faqs>>
                   ELSE IF ~tts_key
                   THEN /\ last' = AudioReply(ip, recent_voice_requests + 1, s, i, 503, "key")
                        /\ UNCHANGED <<messages, faqs>>
                   ELSE LET done == generate_and_save_audio_for_message(
                                        messages[s][i], faqs, outcome)
                        IN  /\ messages' = [messages EXCEPT ![s][i] = done.row]
                            /\ faqs' = done.faq_rows
                            /\ last' = [ AudioReply(ip, recent_voice_requests + 1, s, i,
                                             IF done.success THEN 200 ELSE 500,
                                             "service")
                                         EXCEPT !.provider = outcome,
                                                !.tts_calls = done.tts_calls ]
        /\ UNCHANGED <<chat_rate, sent, admitted, idle_for, conversations, projects, tts_key, pc, req>>

\* len(text) > 1000 (views.py, generate_voice)
VOICE_TEXT_MAX == 1000

\* a text of 1001 characters, and the texts a client sends to generate_voice
LONG_TEXT == [i \in 1..(VOICE_TEXT_MAX + 1) |-> "a"]
VoiceTexts == { <<>>, R_PY, LONG_TEXT }

\* data.get('text', '').strip() of each of them
StrippedText == [t \in VoiceTexts |-> Strip(t)]

\* generate_audio(text): None for empty text without calling the provider,
\* None when the call fails or returns nothing, else the bytes
generate_audio(text, outcome) ==
    IF Strip(text) = <<>>
    THEN [audio_data |-> NoAudio, tts_calls |-> 0]
    ELSE [audio_data |-> outcome, tts_calls |-> 1]

\* generate_audio_base64(text): the bytes of generate_audio in base64, None
\* when there are none
generate_audio_base64(text, outcome) ==
    LET generated == generate_audio(text, outcome)
    IN  [ audio_base64 |-> IF generated.audio_data = NoAudio THEN <<>>
                           ELSE <<"base64", generated.audio_data>>,
          tts_calls |-> generated.tts_calls ]

\* the JsonResponse of generate_voice
VoiceReply(ip, nth, status, stage) ==
    [ NoReply EXCEPT !.op = "voice", !.status = status, !.stage = stage,
                     !.ip = ip, !.nth = nth ]

\* generate_voice: POST {text}; the audio goes to the client and nothing is stored
GenerateVoice(ip, raw_text, outcome) ==
    LET text == StrippedText[raw_text]
        recent_voice_requests == CacheGet(voice_rate[ip])
        nth == recent_voice_requests + 1
    IN  /\ IF text = <<>>
           THEN /\ last' = VoiceReply(ip, 0, 400, "empty")
                /\ UNCHANGED voice_rate
           ELSE IF VoiceRateExceeded(recent_voice_requests)
           THEN /\ last' = VoiceReply(ip, nth, 429, "rate")
                /\ UNCHANGED voice_rate
           ELSE /\ voice_rate' = [voice_rate EXCEPT
                                     ![ip] = CacheSet(recent_voice_requests + 1)]
                /\ IF Len(text) > VOICE_TEXT_MAX
                   THEN last' = VoiceReply(ip, nth, 400, "length")
                   ELSE IF ~tts_key
                   THEN last' = VoiceReply(ip, nth, 503, "key")
                   ELSE LET done == generate_audio_base64(text, outcome)
                        IN  last' = [ VoiceReply(ip, nth,
                                          IF done.audio_base64 = <<>> THEN 500 ELSE 200,
                                          "service")
                                      EXCEPT !.provider = outcome,
                                             !.tts_calls = done.tts_calls ]
        /\ UNCHANGED <<chat_rate, sent, admitted, idle_for, conversations, messages, faqs, projects,
                       tts_key, pc, req>>

\* FAQAdmin: add a FAQ or save it again; post_save then runs generate_faq_audio
AdminSaveFAQ(f, response, outcome) ==
    LET instance == [ exists |-> TRUE, response |-> response, is_active |-> TRUE,
                      audio_file |-> faqs[f].audio_file ]
        saved == generate_faq_audio(instance, Provider(tts_key, outcome))
    IN  /\ saved # faqs[f]
        /\ faqs' = [faqs EXCEPT ![f] = saved]
        /\ UNCHANGED <<chat_rate, voice_rate, sent, admitted, idle_for, conversations, messages, projects,
                       tts_key, pc, req, last>>

-----------------------------------------------------------------------------
(* The chat pipeline with one web worker, the clock and the admin console. *)

\* an empty database and an empty cache, no request in flight
InitBlank ==
    /\ chat_rate = [ip \in IPs |-> NoEntry]
    /\ voice_rate = [ip \in IPs |-> NoEntry]
    /\ sent = [ip \in IPs |-> 0]
    /\ admitted = [ip \in IPs |-> 0]
    /\ idle_for = [ip \in IPs |-> RATE_WINDOW]
    /\ conversations = [s \in Sessions |-> NoConversation]
    /\ messages = [s \in Sessions |-> <<>>]
    /\ projects = 0
    /\ pc = [p \in Workers |-> "idle"]
    /\ req = [p \in Workers |-> NoReq]

InitIdle == InitBlank /\ last = NoReply

InitStores == InitIdle /\ faqs = [f \in FAQIds |-> NoFAQRow]

Init == InitStores /\ tts_key = TRUE

\* one web worker at a time: requests are handled one after another
Next ==
    \/ \E ip \in OneClient, q \in Queries, sid \in RequestSessions :
          ChatReceive("w1", ip, q, sid)
    \/ ChatAdmit("w1")
    \/ ChatBegin("w1")
    \/ \E llm \in LLMOutcomes : ChatGenerate("w1", llm)
    \/ Tick(RATE_WINDOW)
    \/ \E s \in AdminSessions, total \in TotalChoices : AdminSaveConversation(s, total)
    \/ \E s \in AdminSessions : \E order \in AdminOrders(s),
          type \in {"user_query", "ai_response"} :
          AdminAddMessage(s, order, type, IF type = "user_query" THEN Q_SKILLS ELSE R_PY,
                          NoFAQ, MaxMsgs)

Spec == Init /\ [][Next]_vars

-----------------------------------------------------------------------------
(* Two web workers handling chat requests concurrently.                     *)

NextConc ==
    \/ \E p \in Workers, ip \in OneClient, sid \in {NoSession} \cup AdminSessions :
          ChatReceive(p, ip, Q_SKILLS, sid)
    \/ \E p \in Workers : ChatAdmit(p)
    \/ \E p \in Workers : ChatBegin(p)
    \/ \E p \in Workers :
          ChatGenerate(p, [ok |-> TRUE, text |-> R_PY, followup_ok |-> TRUE])
    \/ AdminAddProject
    \/ \E s \in AdminSessions : AdminSaveConversation(s, 0)
    \/ \E s \in AdminSessions : \E order \in AdminOrders(s) :
          AdminAddMessage(s, order, "user_query", Q_WORK, NoFAQ, MaxMsgsConc)

SpecConc == Init /\ [][NextConc]_vars

-----------------------------------------------------------------------------
(* Audio requests for stored messages, with the admin console and the clock. *)

\* the bytes the provider returns for a FAQ's response and for a message
FAQ_AUDIO == "faq.mp3"
MESSAGE_AUDIO == "msg.mp3"

\* the messages the admin console adds: a visitor's query, and replies that
\* are and are not based on a FAQ
VoiceRows ==
    { [message_type |-> "user_query", content |-> Q_SKILLS, source_faq |-> NoFAQ] }
        \cup { [message_type |-> "ai_response", content |-> R_PY, source_faq |-> f] :
                   f \in {NoFAQ} \cup FAQIds }

\* the deployment has the provider's API key configured, or has not
InitVoice == InitStores /\ tts_key \in BOOLEAN

NextVoice ==
    \/ \E ip \in OneClient, s \in AdminSessions, i \in 1..MaxMsgsVoice,
          outcome \in {NoAudio, MESSAGE_AUDIO} :
          GenerateMessageAudio(ip, s, i, outcome)
    \/ \E f \in FAQIds, outcome \in {NoAudio, FAQ_AUDIO} : AdminSaveFAQ(f, R_PY, outcome)
    \/ \E s \in AdminSessions : AdminSaveConversation(s, 0)
    \/ \E s \in AdminSessions, row \in VoiceRows :
          AdminAddMessage(s, Len(messages[s]) + 1, row.message_type, row.content,
                          row.source_faq, MaxMsgsVoice)
    \/ Tick(RATE_WINDOW)

SpecVoice == InitVoice /\ [][NextVoice]_vars

-----------------------------------------------------------------------------
(* FAQs saved again with another response, next to the audio requests.      *)

\* the bytes the provider returns for the other response
FAQ_AUDIO_OTHER == "faq-other.mp3"

\* what saving a FAQ brings: <<response, what the provider returns for it>>
FaqSaves ==
    { <<R_PY, NoAudio>>, <<R_PY, FAQ_AUDIO>>,
      <<R_OTHER, NoAudio>>, <<R_OTHER, FAQ_AUDIO_OTHER>> }

NextFaqAudio ==
    \/ \E ip \in OneClient, s \in AdminSessions, i \in 1..MaxMsgsVoice,
          outcome \in {NoAudio, MESSAGE_AUDIO} :
          GenerateMessageAudio(ip, s, i, outcome)
    \/ \E f \in FAQIds, save \in FaqSaves : AdminSaveFAQ(f, save[1], save[2])
    \/ \E s \in AdminSessions : AdminSaveConversation(s, 0)
    \/ \E s \in AdminSessions, row \in VoiceRows :
          AdminAddMessage(s, Len(messages[s]) + 1, row.message_type, row.content,
                          row.source_faq, MaxMsgsVoice)
    \/ Tick(RATE_WINDOW)

SpecFaqAudio == InitVoice /\ [][NextFaqAudio]_vars

-----------------------------------------------------------------------------
(* The two rate limiters: chat requests of one client, voice requests of    *)
(* two clients on both voice endpoints, and the clock.                      *)

NextRate ==
    \/ \E ip \in OneClient, q \in {Q_SHORT, Q_SKILLS} : ChatReceive("w1", ip, q, NoSession)
    \/ ChatAdmit("w1")
    \/ ChatBegin("w1")
    \/ ChatGenerate("w1", [ok |-> TRUE, text |-> R_PY, followup_ok |-> TRUE])
    \/ \E ip \in IPs, raw_text \in VoiceTexts, outcome \in {NoAudio, MESSAGE_AUDIO} :
          GenerateVoice(ip, raw_text, outcome)
    \/ \E ip \in IPs, s \in AdminSessions : GenerateMessageAudio(ip, s, 1, NoAudio)
    \/ Tick(RATE_WINDOW)

SpecRate == InitVoice /\ [][NextRate]_vars

-----------------------------------------------------------------------------
(* The source-FAQ matcher applied to replies, over tables of two FAQs.      *)

\* FAQ responses as an author stores them, and replies of the provider:
\* the same sentence spaced and cased differently, a part of it, another one
R_PY_SPACED == <<"I"," ","u","s","e"," "," ","P","y","t","h","o","n">>
R_PY_LOUD == <<" ","i"," "," ","U","S","E"," ","p","y","t","h","o","n"," ">>
R_PY_PART == <<"I"," ","u","s","e">>
MatchFAQIds == {1, 2}
MatchResponses == { R_PY, R_PY_SPACED, R_OTHER }
MatchReplies == { R_PY, R_PY_SPACED, R_PY_LOUD, R_PY_PART, R_OTHER }

\* the rows a FAQ table can hold for one id
MatchRows ==
    { NoFAQRow } \cup
    { [exists |-> TRUE, response |-> r, is_active |-> a, audio_file |-> NoAudio] :
         r \in MatchResponses, a \in BOOLEAN }

InitMatch == InitIdle /\ tts_key = TRUE /\ faqs \in [MatchFAQIds -> MatchRows]

\* _find_source_faq_for_response(response_text) on the stored FAQs
FindSourceFAQ(response_text) ==
    /\ last' = [ NoReply EXCEPT !.op = "match", !.input = response_text,
                    !.source_faq = find_source_faq_for_response(response_text, faqs) ]
    /\ UNCHANGED <<chat_rate, voice_rate, sent, admitted, idle_for, conversations, messages, faqs,
                   projects, tts_key, pc, req>>

NextMatch == \E response_text \in MatchReplies : FindSourceFAQ(response_text)

SpecMatch == InitMatch /\ [][NextMatch]_vars

-----------------------------------------------------------------------------
(* Two web workers at the rate limiter, within one window.                  *)

\* requests of one client that the moderation filter refuses after the rate
\* limiter has counted them
NextRace ==
    \/ \E p \in Workers, ip \in OneClient : ChatReceive(p, ip, Q_SHORT, NoSession)
    \/ \E p \in Workers : ChatAdmit(p)

SpecRace == Init /\ [][NextRace]_vars

-----------------------------------------------------------------------------
(* The moderation filter applied to messages.                               *)

\* the words messages are made of
W_MY == <<"m","y">>
W_SKILLS == <<"s","k","i","l","l","s">>
W_KILL == <<"k","i","l","l">>
W_THIS == <<"t","h","i","s">>
W_IS == <<"i","s">>
W_SHIT == <<"s","h","i","t">>
W_CLASS == <<"c","l","a","s","s">>
Vocabulary == { W_MY, W_SKILLS, W_KILL, W_THIS, W_IS, W_SHIT, W_CLASS }

\* messages of one to three words
Sentences ==
    { a : a \in Vocabulary }
        \cup { Join(<<a, b>>) : a, b \in Vocabulary }
        \cup { Join(<<a, b, c>>) : a, b, c \in Vocabulary }

\* a message of n characters that repeats the given text
Repeated(text, n) == [i \in 1..n |-> text[((i - 1) % Len(text)) + 1]]

\* one and two characters, and 500 and 501 characters of letters, of signs
\* and of a profanity
EdgeMessages ==
    { <<"a">>, <<"h","i">>, <<"$","$">>, <<"A","A">> }
        \cup { Repeated(t, n) : t \in { <<"a">>, <<"$">>, W_SHIT \o <<" ">> },
                                n \in { MAX_MESSAGE_LEN, MAX_MESSAGE_LEN + 1 } }

\* the messages chat_query passes to the filter: user_query, already stripped
ModerationInputs == Sentences \cup EdgeMessages

\* validate_message_content of each of them
Verdicts == [m \in ModerationInputs |-> validate_message_content(m)]

InitModerate ==
    /\ InitBlank /\ tts_key = TRUE /\ faqs = [f \in FAQIds |-> NoFAQRow]
    /\ last \in { [NoReply EXCEPT !.input = m] : m \in ModerationInputs }

\* is_valid, error_message = validate_message_content(user_query)
Moderate ==
    /\ last.op = "none"
    /\ last' = [ last EXCEPT !.op = "moderate",
                             !.status = IF Verdicts[last.input].is_valid THEN 200 ELSE 400,
                             !.stage = Verdicts[last.input].error ]
    /\ UNCHANGED <<chat_rate, voice_rate, sent, admitted, idle_for, conversations, messages, faqs,
                   projects, tts_key, pc, req>>

NextModerate == Moderate

SpecModerate == InitModerate /\ [][NextModerate]_vars

-----------------------------------------------------------------------------
(* Slide content from provider output: portfolio/slide_service.py           *)
(* generate_slide_content, _parse_slide_content, _fallback_slide_generation *)

RECURSIVE SplitOn(_, _)
\* str.split(sep) for a separator of one character
SplitOn(s, sep) ==
    LET cuts == { i \in DOMAIN s : s[i] = sep }
    IN  IF cuts = {} THEN <<s>>
        ELSE LET i == CHOOSE x \in cuts : \A y \in cuts : x <= y
             IN  <<SubSeq(s, 1, i - 1)>> \o SplitOn(SubSeq(s, i + 1, Len(s)), sep)

\* str.startswith(prefix)
StartsWith(s, prefix) ==
    Len(s) >= Len(prefix) /\ SubSeq(s, 1, Len(prefix)) = prefix

RECURSIVE Remove(_, _)
\* str.replace(old, ''): every occurrence of old, left to right, is dropped
Remove(s, old) ==
    IF Len(s) < Len(old) THEN s
    ELSE IF StartsWith(s, old) THEN Remove(SubSeq(s, Len(old) + 1, Len(s)), old)
    ELSE <<Head(s)>> \o Remove(Tail(s), old)

\* re.search(r'a.*b', query): a occurs and b occurs somewhere after it
Follows(query, a, b) ==
    \E i \in 1..(Len(query) - Len(a) + 1) :
        /\ SubSeq(query, i, i + Len(a) - 1) = a
        /\ \E j \in (i + Len(a))..(Len(query) - Len(b) + 1) :
               SubSeq(query, j, j + Len(b) - 1) = b

\* title_patterns, in the order of the dict: <<a, b, title>> for r'a.*b'
\* (b is empty for the pattern r'design process')
TITLE_PATTERNS ==
    << << <<"w","h","a","t"," ","p","r","o","j","e","c","t","s">>, <<"w","o","r","k">>,
          <<"M","y"," ","P","r","o","j","e","c","t","s">> >>,
       << <<"w","h","a","t">>, <<"s","k","i","l","l","s">>,
          <<"M","y"," ","S","k","i","l","l","s">> >>,
       << <<"t","e","l","l"," ","m","e"," ","a","b","o","u","t">>, <<"e","x","p","e","r","i","e","n","c","e">>,
          <<"M","y"," ","E","x","p","e","r","i","e","n","c","e">> >>,
       << <<"w","h","a","t">>, <<"b","a","c","k","g","r","o","u","n","d">>,
          <<"M","y"," ","B","a","c","k","g","r","o","u","n","d">> >>,
       << <<"w","h","a","t">>, <<"e","d","u","c","a","t","i","o","n">>,
          <<"M","y"," ","E","d","u","c","a","t","i","o","n">> >>,
       << <<"d","e","s","i","g","n"," ","p","r","o","c","e","s","s">>, <<>>,
          <<"M","y"," ","D","e","s","i","g","n"," ","P","r","o","c","e","s","s">> >>,
       << <<"w","h","a","t">>, <<"t","o","o","l","s">>,
          <<"T","o","o","l","s"," ","&"," ","T","e","c","h","n","o","l","o","g","i","e","s">> >>,
       << <<"w","h","a","t">>, <<"a","c","h","i","e","v","e","m","e","n","t","s">>,
          <<"K","e","y"," ","A","c","h","i","e","v","e","m","e","n","t","s">> >>,
       << <<"w","h","a","t">>, <<"r","o","l","e","s">>,
          <<"P","r","o","f","e","s","s","i","o","n","a","l"," ","R","o","l","e","s">> >>,
       << <<"w","h","a","t">>, <<"c","o","m","p","a","n","i","e","s">>,
          <<"W","o","r","k"," ","E","x","p","e","r","i","e","n","c","e">> >> >>

GENERIC_TITLE == <<"P","o","r","t","f","o","l","i","o"," ","I","n","f","o","r","m","a","t","i","o","n">>

\* _extract_title_from_query(query): the title of the first pattern found in
\* the stripped, lowercased query, else the generic title
extract_title_from_query(query) ==
    LET q == Lower(Strip(query))
        hits == { k \in DOMAIN TITLE_PATTERNS :
                    Follows(q, TITLE_PATTERNS[k][1], TITLE_PATTERNS[k][2]) }
    IN  IF hits = {} THEN GENERIC_TITLE
        ELSE TITLE_PATTERNS[CHOOSE k \in hits : \A h \in hits : k <= h][3]

\* the HTML of a slide body: <ul class="slide-bullets"> with one <li> per
\* bullet, or one <p> with a text
BulletList(bullets) == [element |-> "ul", items |-> bullets]
Paragraph(text) == [element |-> "p", items |-> <<text>>]

KEY_INFORMATION == <<"K","e","y"," ","i","n","f","o","r","m","a","t","i","o","n"," ","f","r","o","m"," ","c","o","n","v","e","r","s","a","t","i","o","n">>
GENERIC_BULLETS == << <<"K","e","y"," ","p","o","r","t","f","o","l","i","o"," ","i","n","f","o","r","m","a","t","i","o","n">>,
                      <<"P","r","o","f","e","s","s","i","o","n","a","l"," ","e","x","p","e","r","i","e","n","c","e"," ","h","i","g","h","l","i","g","h","t","s">> >>

\* the alternatives of r'^(I|I\'ve|I have|My|The|A)\s+', in their order
SENTENCE_OPENERS == << <<"i">>, <<"i","'","v","e">>, <<"i"," ","h","a","v","e">>, <<"m","y">>, <<"t","h","e">>, <<"a">> >>

\* re.sub(r'^(I|I\'ve|I have|My|The|A)\s+', '', sentence, flags=re.IGNORECASE)
\* and strip(): the first alternative that is followed by whitespace is
\* dropped with the whitespace after it
clean_sentence(sentence) ==
    LET low == Lower(sentence)
        fits == { k \in DOMAIN SENTENCE_OPENERS :
                    /\ StartsWith(low, SENTENCE_OPENERS[k])
                    /\ Len(sentence) > Len(SENTENCE_OPENERS[k])
                    /\ IsSpace(sentence[Len(SENTENCE_OPENERS[k]) + 1]) }
    IN  IF fits = {} THEN Strip(sentence)
        ELSE LET k == CHOOSE x \in fits : \A y \in fits : x <= y
             IN  Strip(SubSeq(sentence, Len(SENTENCE_OPENERS[k]) + 1, Len(sentence)))

SENTENCE_MIN == 15
SENTENCE_MAX == 100
MAX_BULLETS == 4

RECURSIVE SelectNonEmpty(_)
\* the non-empty texts of a sequence, in their order
SelectNonEmpty(seq) ==
    IF seq = <<>> THEN <<>>
    ELSE (IF Head(seq) = <<>> THEN <<>> ELSE <<Head(seq)>>) \o SelectNonEmpty(Tail(seq))

\* _fallback_slide_generation(user_query, ai_response): the title from the
\* query; of the first 4 sentences of the reply those of 16 to 99 characters,
\* cleaned, as bullets; two generic bullets when none is left
fallback_slide_generation(user_query, ai_response) ==
    LET parts == SplitOn(ai_response, ".")
        sentences == SelectNonEmpty([k \in DOMAIN parts |-> Strip(parts[k])])
        first == SubSeq(sentences, 1, IF Len(sentences) < MAX_BULLETS
                                      THEN Len(sentences) ELSE MAX_BULLETS)
        cleaned == [k \in DOMAIN first |->
                       IF Len(first[k]) > SENTENCE_MIN /\ Len(first[k]) < SENTENCE_MAX
                       THEN clean_sentence(first[k]) ELSE <<>>]
        bullets == SelectNonEmpty(cleaned)
    IN  [ title |-> extract_title_from_query(user_query),
          body |-> BulletList(IF bullets = <<>> THEN GENERIC_BULLETS ELSE bullets) ]

\* a test that takes every text for a non-empty one
Truthy_Always(text) == TRUE

\* `if bullet:` and `title or ...`: the text is not empty
Truthy(text) == text # <<>>

MARK_TITLE == <<"T","I","T","L","E",":">>
MARK_BODY == <<"B","O","D","Y",":">>

RECURSIVE scan_lines(_, _)
\* the loop over the lines of the provider output
scan_lines(lines, acc) ==
    IF lines = <<>> THEN acc
    ELSE LET line == Strip(Head(lines))
             bullet == Strip(Tail(line))
             next ==
                IF StartsWith(line, MARK_TITLE)
                THEN [acc EXCEPT !.title = Strip(Remove(line, MARK_TITLE))]
                ELSE IF StartsWith(line, MARK_BODY)
                THEN [acc EXCEPT !.in_body = TRUE]
                ELSE IF acc.in_body /\ StartsWith(line, <<"-">>) /\ Truthy(bullet)
                THEN [acc EXCEPT !.body_lines = Append(@, bullet)]
                ELSE acc
         IN  scan_lines(Tail(lines), next)

\* the names bound inside _parse_slide_content
PARSE_SCOPE ==
    { "self", "content", "lines", "title", "body_lines", "in_body", "line",
      "bullet", "html_body", "e" }

\* _parse_slide_content(content): the title and the bullets of the output.
\* Without a title, line 112 reads user_query, a name that is bound neither in
\* the function nor in the module: NameError; the handler at line 116 reads
\* user_query and ai_response again, and its NameError leaves the function.
parse_slide_content(content) ==
    LET acc == scan_lines(SplitOn(Strip(content), "\n"),
                          [title |-> <<>>, in_body |-> FALSE, body_lines |-> <<>>])
        html_body == IF acc.body_lines # <<>> THEN BulletList(acc.body_lines)
                     ELSE Paragraph(KEY_INFORMATION)
    IN  IF Truthy(acc.title)
        THEN [raises |-> FALSE, title |-> acc.title, body |-> html_body]
        ELSE [raises |-> "user_query" \notin PARSE_SCOPE, title |-> acc.title,
              body |-> html_body]

\* generate_slide_content(user_query, ai_response): the provider answers with
\* a text or raises; the stripped text is parsed; every exception inside the
\* try leads to _fallback_slide_generation.  path names the way taken.
generate_slide_content(user_query, ai_response, outcome) ==
    LET parsed == parse_slide_content(Strip(outcome.content))
        fallback == fallback_slide_generation(user_query, ai_response)
    IN  IF outcome.ok /\ ~parsed.raises
        THEN [title |-> parsed.title, body |-> parsed.body, path |-> "parsed"]
        ELSE [title |-> fallback.title, body |-> fallback.body, path |-> "fallback"]

\* the texts of the lines the provider output is made of
SLIDE_HEADING == <<"M","y"," ","W","o","r","k">>
BULLET_PY == <<"P","y","t","h","o","n">>
BULLET_DESIGN == <<"D","e","s","i","g","n">>
SlideHeadings == { SLIDE_HEADING }
SlideBullets == { BULLET_PY, BULLET_DESIGN }

\* the lines of the format the prompt asks for
TitleLine(title) == MARK_TITLE \o <<" ">> \o title
BulletLine(bullet) == <<"-", " ">> \o bullet

\* other lines: text without a marker, a title line and a bullet line with
\* nothing after the marker
PLAIN_LINE == <<"I"," ","u","s","e"," ","P","y","t","h","o","n",".">>
OutputLines ==
    { TitleLine(t) : t \in SlideHeadings } \cup { BulletLine(b) : b \in SlideBullets }
        \cup { MARK_BODY, MARK_TITLE, <<"-">>, PLAIN_LINE }

RECURSIVE JoinLines(_)
\* '\n'.join(lines)
JoinLines(lines) ==
    IF Len(lines) = 1 THEN Head(lines)
    ELSE Head(lines) \o <<"\n">> \o JoinLines(Tail(lines))

\* the longest provider output, in lines
MaxLines == 4

\* the provider outputs: every text of one to MaxLines of these lines
ProviderOutputs ==
    UNION { { JoinLines(ls) : ls \in [1..n -> OutputLines] } : n \in 1..MaxLines }

\* the provider's answers: a text, or an exception
SlideOutcomes ==
    { [ok |-> TRUE, content |-> c] : c \in ProviderOutputs }
        \cup { [ok |-> FALSE, content |-> NoText] }

Q_WHAT_SKILLS == <<"W","h","a","t"," ","a","r","e"," ","y","o","u","r"," ","s","k","i","l","l","s","?">>
R_PY_DAILY == <<"I"," ","u","s","e"," ","P","y","t","h","o","n","."," ","I"," ","h","a","v","e"," ","b","u","i","l","t"," ","w","e","b"," ","a","p","p","l","i","c","a","t","i","o","n","s"," ","w","i","t","h"," ","D","j","a","n","g","o",".">>
\* the turns a slide is made for: <<user query, reply>>
SlideTurns == { <<Q_SKILLS, R_PY>>, <<Q_WHAT_SKILLS, R_PY_DAILY>> }

InitSlide ==
    /\ InitBlank /\ tts_key = TRUE /\ faqs = [f \in FAQIds |-> NoFAQRow]
    /\ last \in { [NoReply EXCEPT !.query = t[1], !.response = t[2],
                                  !.status = IF o.ok THEN 200 ELSE 500,
                                  !.input = o.content] :
                     t \in SlideTurns, o \in SlideOutcomes }

\* slide_title, slide_body = self.generate_slide_content(user_message.content,
\* message_obj.content)
GenerateSlideContent ==
    /\ last.op = "none"
    /\ LET slide == generate_slide_content(last.query, last.response,
                           [ok |-> last.status = 200, content |-> last.input])
       IN  last' = [ last EXCEPT !.op = "slide", !.stage = slide.path,
                                 !.slide_title = slide.title,
                                 !.slide_body = slide.body ]
    /\ UNCHANGED <<chat_rate, voice_rate, sent, admitted, idle_for, conversations, messages, faqs,
                   projects, tts_key, pc, req>>

NextSlide == GenerateSlideContent

SpecSlide == InitSlide /\ [][NextSlide]_vars

-----------------------------------------------------------------------------
(* Conversation history: portfolio/views.py conversation_history            *)

RECURSIVE SortedByOrder(_)
\* ORDER BY order_in_session
SortedByOrder(rows) ==
    IF rows = <<>> THEN <<>>
    ELSE LET i == CHOOSE x \in DOMAIN rows :
                      \A y \in DOMAIN rows :
                          rows[x].order_in_session <= rows[y].order_in_session
         IN  <<rows[i]>> \o
                 SortedByOrder([k \in 1..(Len(rows) - 1) |->
                                   IF k < i THEN rows[k] ELSE rows[k + 1]])

\* the messages of a conversation as the table holds them, without ordering
messages_all_Unordered(rows) == rows

\* conversation.messages.all(): Message.Meta.ordering = ['order_in_session']
messages_all(rows) == SortedByOrder(rows)

\* message_data of one message
MessageData(row) ==
    [ message_type |-> row.message_type, content |-> row.content,
      order_in_session |-> row.order_in_session,
      has_audio |-> row.audio_file # NoAudio,
      audio_url |-> row.audio_file,
      slide_title |-> row.slide_title, slide_body |-> row.slide_body ]

\* GET api/conversation/<uuid:session_id>/: 404 when no conversation has the
\* session id, else the messages in the order of messages.all()
ConversationHistory(session_id) ==
    /\ last' = IF ~conversations[session_id].exists
               THEN [ NoReply EXCEPT !.op = "history", !.status = 404,
                                     !.stage = "lookup", !.session_id = session_id ]
               ELSE LET rows == messages_all(messages[session_id])
                    IN  [ NoReply EXCEPT
                            !.op = "history", !.status = 200, !.stage = "done",
                            !.session_id = session_id,
                            !.message_count = conversations[session_id].total_messages,
                            !.message = [k \in DOMAIN rows |-> MessageData(rows[k])] ]
    /\ UNCHANGED <<chat_rate, voice_rate, sent, admitted, idle_for, conversations, messages, faqs,
                   projects, tts_key, pc, req>>

\* the most messages of the conversation whose history is read
MaxMsgsHistory == 3

\* the orders an operator gives them, in any sequence
HistoryOrders == 1..MaxMsgsHistory

NextHistory ==
    \/ \E s \in Sessions : ConversationHistory(s)
    \/ \E s \in AdminSessions : AdminSaveConversation(s, 0)
    \/ \E s \in AdminSessions, order \in HistoryOrders,
          type \in {"user_query", "ai_response"} :
          AdminAddMessage(s, order, type, Q_WORK, NoFAQ, MaxMsgsHistory)

SpecHistory == Init /\ [][NextHistory]_vars

-----------------------------------------------------------------------------
(* Featured questions: portfolio/views.py featured_questions                *)

\* [:6]
FEATURED_LIMIT == 6

\* the FAQs of the table: one more than the reply can hold
FeaturedFAQIds == 1..(FEATURED_LIMIT + 1)

\* a FAQ row with the fields the operation reads; FAQs are created in the
\* order of their ids, so created_at is the id
FeaturedRow(f, featured, active, priority, audio) ==
    [ exists |-> TRUE, response |-> R_PY, is_active |-> active, audio_file |-> audio,
      is_featured |-> featured, priority |-> priority, created_at |-> f,
      question |-> Q_WORK, id |-> f ]

\* what an operator made of a FAQ, as <<is_featured, is_active, priority,
\* audio_file>>: featured and active with priority 0 or 1 (one of them with
\* audio), featured but inactive, active but not featured
FeaturedChoices ==
    { <<TRUE, TRUE, 0, FAQ_AUDIO>>, <<TRUE, TRUE, 1, NoAudio>>,
      <<TRUE, FALSE, 1, NoAudio>>, <<FALSE, TRUE, 1, NoAudio>> }

\* a filter that forgets is_active
IsFeatured_Inactive(row) == row.exists /\ row.is_featured

\* FAQ.objects.filter(is_featured=True, is_active=True)
IsFeatured(row) == row.exists /\ row.is_featured /\ row.is_active

\* the row comes before the other under order_by('-priority', '-created_at')
RanksBefore(row, other) ==
    \/ row.priority > other.priority
    \/ row.priority = other.priority /\ row.created_at >= other.created_at

RECURSIVE SortedByRank(_, _)
\* the rows of the given ids under order_by('-priority', '-created_at')
SortedByRank(ids, faq_rows) ==
    IF ids = {} THEN <<>>
    ELSE LET f == CHOOSE x \in ids : \A y \in ids : RanksBefore(faq_rows[x], faq_rows[y])
         IN  <<faq_rows[f]>> \o SortedByRank(ids \ {f}, faq_rows)

\* featured_faqs: the first 6 of the featured and active FAQs
featured_faqs(faq_rows) ==
    LET sorted == SortedByRank({ f \in DOMAIN faq_rows : IsFeatured(faq_rows[f]) }, faq_rows)
    IN  SubSeq(sorted, 1, IF Len(sorted) < FEATURED_LIMIT THEN Len(sorted)
                          ELSE FEATURED_LIMIT)

\* question_data of a FAQ
QuestionData(row) ==
    [ question |-> row.question, response |-> row.response,
      has_audio |-> has_audio(row),
      audio_url |-> IF has_audio(row) THEN row.audio_file ELSE NoAudio,
      faq_id |-> row.id ]

\* a hardcoded question
DefaultQuestion(question) ==
    [ question |-> question, response |-> NoText, has_audio |-> FALSE,
      audio_url |-> NoAudio, faq_id |-> NoFAQ ]

\* the hardcoded questions of the else branch and of the except branch
DEFAULT_QUESTIONS ==
    << DefaultQuestion("What projects have you worked on?"),
       DefaultQuestion("What are your main skills?"),
       DefaultQuestion("Tell me about your experience"),
       DefaultQuestion("What's your design process?") >>

\* the query or VoiceService() works, or raises
FeaturedOutcomes == { "ok", "error" }

\* GET featured questions
FeaturedQuestions(outcome) ==
    /\ LET rows == featured_faqs(faqs)
           questions == IF outcome = "ok" /\ rows # <<>>
                        THEN [k \in DOMAIN rows |-> QuestionData(rows[k])]
                        ELSE DEFAULT_QUESTIONS
           source == IF outcome # "ok" THEN "fallback"
                     ELSE IF rows # <<>> THEN "featured_faqs" ELSE "default"
       IN  last' = [ NoReply EXCEPT !.op = "featured", !.status = 200,
                                    !.stage = source, !.outcome = outcome,
                                    !.message = questions,
                                    !.message_count = Len(questions) ]
    /\ UNCHANGED <<chat_rate, voice_rate, sent, admitted, idle_for, conversations, messages, faqs,
                   projects, tts_key, pc, req>>

InitFeatured ==
    /\ InitIdle /\ tts_key = TRUE
    /\ faqs \in { [f \in FeaturedFAQIds |->
                       FeaturedRow(f, c[f][1], c[f][2], c[f][3], c[f][4])] :
                     c \in [FeaturedFAQIds -> FeaturedChoices] }

NextFeatured == \E outcome \in FeaturedOutcomes : FeaturedQuestions(outcome)

SpecFeatured == InitFeatured /\ [][NextFeatured]_vars

-----------------------------------------------------------------------------
(* Word timestamps: portfolio/voice_service.py _estimate_word_timestamps    *)

\* times are counted in ticks of 1/330 second, the unit in which a character
\* of a word (60/165/6 s = 20 ticks) and the pauses are whole numbers
TICKS_PER_SECOND == 330

\* base_duration * (1/6) per character, and the cap of base_duration * 1.5
TICKS_PER_CHAR == 20
WORD_TICKS_MAX == 180

\* the pauses of 0.5, 0.3 and 0.1 seconds
SENTENCE_PAUSE == 165
CLAUSE_PAUSE == 99
MARK_PAUSE == 33

\* round(t, 2), in hundredths of a second; no time is halfway between two
\* hundredths
Round2(ticks) == (2 * 100 * ticks + TICKS_PER_SECOND) \div (2 * TICKS_PER_SECOND)

RECURSIVE TokensFrom(_, _)
\* the matches that start at the given places, from left to right
TokensFrom(text, starts) ==
    IF starts = {} THEN <<>>
    ELSE LET i == CHOOSE x \in starts : \A y \in starts : x <= y
             j == IF ~IsWordChar(text[i]) THEN i
                  ELSE CHOOSE e \in i..Len(text) :
                          /\ \A k \in i..e : IsWordChar(text[k])
                          /\ (e = Len(text) \/ ~IsWordChar(text[e + 1]))
         IN  <<SubSeq(text, i, j)>> \o TokensFrom(text, starts \ {i})

\* a tokenizer that starts a match at every character
find_words_PerChar(text) ==
    TokensFrom(text, { i \in DOMAIN text : ~IsSpace(text[i]) })

\* re.findall(r'\b\w+\b|\S', text): the maximal runs of word characters, and
\* every other character that is no whitespace
find_words(text) ==
    TokensFrom(text, { i \in DOMAIN text :
                         /\ ~IsSpace(text[i])
                         /\ (~IsWordChar(text[i]) \/ i = 1 \/ ~IsWordChar(text[i - 1])) })

\* word_duration: 20 ticks per character, at most 180
word_duration(word) ==
    IF TICKS_PER_CHAR * Len(word) < WORD_TICKS_MAX THEN TICKS_PER_CHAR * Len(word)
    ELSE WORD_TICKS_MAX

\* the pause after a token that is no word
pause(token) ==
    IF token[1] \in {".", "!", "?"} THEN SENTENCE_PAUSE
    ELSE IF token[1] \in {",", ";", ":"} THEN CLAUSE_PAUSE
    ELSE IF token[1] \in {"-", "(", ")", "[", "]"} THEN MARK_PAUSE
    ELSE 0

RECURSIVE timestamps_from(_, _)
\* the loop over the tokens: an entry per word, a pause per punctuation mark
timestamps_from(words, current_time) ==
    IF words = <<>> THEN <<>>
    ELSE LET word == Head(words)
         IN  IF IsWordChar(word[1])
             THEN << [ word |-> word, start |-> Round2(current_time),
                       end |-> Round2(current_time + word_duration(word)) ] >>
                      \o timestamps_from(Tail(words), current_time + word_duration(word))
             ELSE timestamps_from(Tail(words), current_time + pause(word))

\* _estimate_word_timestamps(text); start and end in hundredths of a second
estimate_word_timestamps(text) == timestamps_from(find_words(text), 0)

\* the words and marks texts are made of: words of 1, 3, 6 and 10 letters, a
\* word with a full stop, a comma
SpokenWords == { <<"I">>, <<"u","s","e">>, <<"P","y","t","h","o","n">>, <<"p","o","r","t","f","o","l","i","o","s">>, <<"D","j","a","n","g","o",".">>, <<",">> }

\* the most words of a text
MaxWords == 3

\* the texts: up to MaxWords of these, with one space or two between them
SpokenTexts ==
    { <<>> } \cup
    UNION { { Join(ws) : ws \in [1..n -> SpokenWords] } : n \in 1..MaxWords }
        \cup { a \o <<" ", " ">> \o b : a, b \in SpokenWords }

InitTimestamps ==
    /\ InitBlank /\ tts_key = TRUE /\ faqs = [f \in FAQIds |-> NoFAQRow]
    /\ last \in { [NoReply EXCEPT !.input = t] : t \in SpokenTexts }

\* word_timestamps = self._estimate_word_timestamps(cleaned_text)
EstimateWordTimestamps ==
    /\ last.op = "none"
    /\ last' = [ last EXCEPT !.op = "timestamps",
                             !.message = estimate_word_timestamps(last.input) ]
    /\ UNCHANGED <<chat_rate, voice_rate, sent, admitted, idle_for, conversations, messages, faqs,
                   projects, tts_key, pc, req>>

NextTimestamps == EstimateWordTimestamps

SpecTimestamps == InitTimestamps /\ [][NextTimestamps]_vars

-----------------------------------------------------------------------------
(* Properties of the chat turn.                                             *)

\* worker p's turn ends in this step: it passed every admission check and
\* wrote its user message, and now answers
TurnEnds(p) == pc[p] = "llm" /\ pc'[p] = "idle"

\* the messages the conversation of worker p's turn held before the turn
HeldBefore(p) == IF req[p].created THEN <<>> ELSE messages[req[p].conversation]

\* C1: of the chat requests with a non-empty query that one client sends one
\* after another from an empty counter, the 10th is admitted by the rate
\* limiter and succeeds, and the 11th is answered 429.
C1_TenthSucceedsEleventhLimited ==
    last.op = "chat" =>
        /\ last.nth = CHAT_RATE_LIMIT =>
              /\ last.stage # "rate"
              /\ last.stage = "turn" => last.status = 200
        /\ last.nth = CHAT_RATE_LIMIT + 1 => last.status = 429 /\ last.stage = "rate"

\* C2: a chat request that passed every admission check ends with a success
\* reply carrying the generated text, the session id and the message count,
\* and appends exactly one user_query and one ai_response (whose content is
\* the reply text) to the conversation.
C2_AdmittedTurnSucceeds ==
    [][ \A p \in Workers : TurnEnds(p) =>
          LET conv == req[p].conversation
              n == Len(HeldBefore(p))
          IN  /\ last'.op = "chat" /\ last'.status = 200
              /\ \E llm \in LLMOutcomes :
                    last'.response =
                        generate_response(req[p].query, llm, faqs, projects).value[1]
              /\ last'.session_id = conv
              /\ last'.message_count = n + 2
              /\ Len(messages'[conv]) = n + 2
              /\ SubSeq(messages'[conv], 1, n) = HeldBefore(p)
              /\ messages'[conv][n + 1].message_type = "user_query"
              /\ messages'[conv][n + 1].content = req[p].query
              /\ messages'[conv][n + 2].message_type = "ai_response"
              /\ messages'[conv][n + 2].content = last'.response ]_vars

\* C3: a completed turn on a conversation that holds n messages stores the
\* user message with order_in_session n+1 and the AI message with n+2 and sets
\* total_messages to n+2 (1, 2 and 2 for the first turn of a new conversation).
C3_TurnOrders ==
    [][ \A p \in Workers : TurnEnds(p) =>
          LET conv == req[p].conversation
              n == Len(HeldBefore(p))
          IN  /\ Len(messages'[conv]) = n + 2
              /\ messages'[conv][n + 1].order_in_session = n + 1
              /\ messages'[conv][n + 2].order_in_session = n + 2
              /\ conversations'[conv].total_messages = n + 2 ]_vars

\* every conversation's total_messages is the number of its messages, and its
\* messages are user_query/ai_response pairs in order: odd orders are user
\* queries, the next even order is the AI response
LedgerPaired(convs, msgs) ==
    \A s \in Sessions :
        /\ ~convs[s].exists => msgs[s] = <<>>
        /\ convs[s].exists =>
              /\ convs[s].total_messages = Len(msgs[s])
              /\ Len(msgs[s]) % 2 = 0
              /\ \A i \in DOMAIN msgs[s] :
                    /\ msgs[s][i].order_in_session = i
                    /\ msgs[s][i].message_type =
                          IF i % 2 = 1 THEN "user_query" ELSE "ai_response"

\* a step of chat_query that answers 500 from inside the transaction
TurnFails ==
    /\ \E p \in Workers : pc[p] \in {"txn", "llm"} /\ pc'[p] = "idle"
    /\ last'.op = "chat" /\ last'.status = 500

\* C4: a chat turn is one atomic unit: no step of a chat request takes a
\* ledger of well-formed pairs to one that is not, and a turn that fails after
\* opening its transaction leaves every conversation and message as committed
\* before (no user message, no newly created conversation).
C4_TurnAtomic ==
    [][ (pc' # pc) =>
          /\ LedgerPaired(conversations, messages)
                => LedgerPaired(conversations', messages')
          /\ TurnFails => UNCHANGED <<conversations, messages>> ]_vars

\* a turn on a new conversation wrote its user message, called the response
\* generator and failed, and nothing of it is stored
C4_Witness ==
    /\ last.op = "chat" /\ last.stage = "turn" /\ last.status = 500
    /\ last.provider_calls > 0
    /\ \A s \in TurnSessions : ~conversations[s].exists /\ messages[s] = <<>>
    /\ LedgerPaired(conversations, messages)

\* C5: a chat request that names an existing conversation whose
\* total_messages is 50 or more is rejected - with 429 whenever its query
\* passes moderation, which runs first - and no message is appended and
\* total_messages is unchanged.
C5_SessionCapRejects ==
    [][ \A p \in Workers :
          ( /\ pc[p] = "admit" /\ pc'[p] # "admit"
            /\ req[p].session_id # NoSession
            /\ conversations[req[p].session_id].exists
            /\ conversations[req[p].session_id].total_messages >= SESSION_CAP )
          => /\ pc'[p] = "idle"
             /\ last'.op = "chat" /\ last'.status \in {400, 429}
             /\ Moderation[req[p].query].is_valid => last'.status = 429
             /\ UNCHANGED <<conversations, messages>> ]_vars

\* a request was answered 429 by the session cap, and the conversation it
\* named still holds what it held
C5_Witness ==
    /\ last.op = "chat" /\ last.stage = "cap" /\ last.status = 429
    /\ \E s \in AdminSessions :
          conversations[s].exists /\ conversations[s].total_messages >= SESSION_CAP

C7_ProviderFailureStillCompletes ==
    (last.op = "chat" /\ last.stage = "turn" /\ last.provider_calls = 1) =>
        /\ last.status = 200
        /\ last.response = APOLOGY
        /\ last.source_faq = NoFAQ

-----------------------------------------------------------------------------
(* Properties of audio generation for a message.                            *)

\* this step is a generate_message_audio request for message i of
\* conversation s that passed the rate limit, found the message to be an AI
\* response and found the provider configured
ReachesService(s, i) ==
    /\ \E ip \in IPs : voice_rate'[ip] = CacheSet(CacheGet(voice_rate[ip]) + 1)
    /\ last'.op = "audio" /\ last'.message = <<s, i>>
    /\ i \in DOMAIN messages[s]
    /\ messages[s][i].message_type = "ai_response"
    /\ tts_key

\* C8: generating audio for an ai_response message without audio whose
\* source_faq has stored audio succeeds without a call to the TTS provider,
\* and afterwards the message's stored audio bytes are the FAQ's and the
\* message carries the FAQ's timestamp list (both records store one).
C8_FaqAudioReused ==
    [][ \A s \in Sessions, i \in 1..MaxMsgsVoice :
          ( /\ ReachesService(s, i)
            /\ ~has_audio(messages[s][i])
            /\ messages[s][i].source_faq # NoFAQ
            /\ has_audio(faqs[messages[s][i].source_faq]) )
          => /\ last'.status = 200
             /\ last'.tts_calls = 0
             /\ messages'[s][i].audio_file = faqs[messages[s][i].source_faq].audio_file
             /\ HasAttribute(FAQ_FIELDS, "audio_word_timestamps")
             /\ HasAttribute(MESSAGE_FIELDS, "audio_word_timestamps") ]_vars

\* C9: generating audio for a message without audio whose source_faq has no
\* audio calls the provider once and leaves every FAQ record unchanged (the
\* FAQ still has no audio), and when the provider returns audio the request
\* succeeds and the message stores exactly those bytes.
C9_FreshSynthesisNoBackFill ==
    [][ \A s \in Sessions, i \in 1..MaxMsgsVoice :
          ( /\ ReachesService(s, i)
            /\ ~has_audio(messages[s][i])
            /\ messages[s][i].source_faq # NoFAQ
            /\ ~has_audio(faqs[messages[s][i].source_faq]) )
          => /\ faqs' = faqs
             /\ last'.tts_calls = 1
             /\ last'.provider # NoAudio =>
                   /\ last'.status = 200
                   /\ messages'[s][i].audio_file = last'.provider ]_vars

\* the latest request synthesized audio for a message that is based on a FAQ,
\* and the FAQ has no audio
C9_Witness ==
    /\ last.op = "audio" /\ last.status = 200 /\ last.tts_calls = 1
    /\ \E s \in Sessions, i \in 1..MaxMsgsVoice :
          /\ last.message = <<s, i>>
          /\ i \in DOMAIN messages[s]
          /\ messages[s][i].audio_file = last.provider
          /\ messages[s][i].source_faq # NoFAQ
          /\ ~has_audio(faqs[messages[s][i].source_faq])

\* C10: when the TTS provider fails while audio is generated for a message,
\* the request is answered with a failure (no exception escapes) and the
\* stored message still has no audio; and when the request that follows a
\* failed one for the same message is made while the provider works, it
\* succeeds and the message has audio.
C10_FailureThenRetryStores ==
    [][ \A s \in Sessions, i \in 1..MaxMsgsVoice :
          ( ReachesService(s, i) /\ ~has_audio(messages[s][i]) )
          => /\ (last'.tts_calls = 1 /\ last'.provider = NoAudio) =>
                   /\ last'.status = 500
                   /\ messages' = messages
             /\ ( /\ last.op = "audio" /\ last.message = <<s, i>>
                  /\ last.status = 500 /\ last.tts_calls = 1
                  /\ last.provider = NoAudio
                  /\ last'.provider # NoAudio )
                => /\ last'.status = 200
                   /\ has_audio(messages'[s][i]) ]_vars

\* this step is a generate_message_audio request for message i of
\* conversation s that passed the rate limit
AudioAdmitted(s, i) ==
    /\ \E ip \in IPs : voice_rate'[ip] = CacheSet(CacheGet(voice_rate[ip]) + 1)
    /\ last'.op = "audio" /\ last'.message = <<s, i>>

\* every message that has stored audio is an ai_response
AudioOnlyOnAIResponses ==
    \A s \in Sessions : \A i \in DOMAIN messages[s] :
        has_audio(messages[s][i]) => messages[s][i].message_type = "ai_response"

-----------------------------------------------------------------------------
(* Properties of the rate limiters.                                         *)

\* this step is a request of client ip to one of the two voice endpoints that
\* reached the rate limiter
VoiceRequest(ip) ==
    /\ last'.op \in {"voice", "audio"} /\ last'.ip = ip /\ last'.stage # "empty"
    /\ last' # last \/ voice_rate'[ip] = CacheSet(CacheGet(voice_rate[ip]) + 1)

\* C12: voice generation is limited to 5 admitted requests per client address
\* per window, counted in one per-client counter that the text endpoint and
\* the per-message endpoint share: a voice request that finds fewer than 5
\* counted is admitted and counted, the 6th is answered 429 and not counted,
\* no client's request changes another client's counter, voice requests never
\* change the chat counter, and chat requests never change the voice counter.
C12_VoiceRateLimit ==
    [][ /\ \A ip \in IPs : VoiceRequest(ip) =>
              /\ chat_rate' = chat_rate
              /\ \A other \in IPs \ {ip} : voice_rate'[other] = voice_rate[other]
              /\ last'.nth = CacheGet(voice_rate[ip]) + 1
              /\ last'.nth <= VOICE_RATE_LIMIT =>
                    /\ last'.status # 429
                    /\ voice_rate'[ip] = CacheSet(last'.nth)
              /\ last'.nth > VOICE_RATE_LIMIT =>
                    /\ last'.nth = VOICE_RATE_LIMIT + 1
                    /\ last'.status = 429
                    /\ voice_rate' = voice_rate
        /\ pc' # pc => voice_rate' = voice_rate ]_vars

\* a client's 6th voice request in its window was answered 429 by the text
\* endpoint, with 5 requests counted, while the chat counter counts as well
C12_Witness ==
    /\ last.op = "voice" /\ last.status = 429 /\ last.nth = VOICE_RATE_LIMIT + 1
    /\ last.ip \in IPs
    /\ CacheGet(voice_rate[last.ip]) = VOICE_RATE_LIMIT
    /\ \E ip \in IPs : CacheGet(chat_rate[ip]) > 0

-----------------------------------------------------------------------------
(* Properties of the source-FAQ matcher.                                    *)

\* a text compared case-insensitively with its whitespace normalized
Normalized(text) == Lower(Strip(Join(Split(text))))

\* the active FAQs whose response equals the reply in that sense
EqualFAQs(reply, faq_rows) ==
    { f \in DOMAIN faq_rows :
         /\ faq_rows[f].exists /\ faq_rows[f].is_active
         /\ Normalized(faq_rows[f].response) = Normalized(reply) }

\* C13: for every reply text and every set of FAQs, source_faq is an active
\* FAQ whose response equals the reply when both are compared
\* case-insensitively with whitespace normalized, and is empty when no active
\* FAQ's response equals the reply in that sense.
C13_SourceFaqIsEqualActiveFaq ==
    last.op = "match" =>
        /\ EqualFAQs(last.input, faqs) # {} =>
              last.source_faq \in EqualFAQs(last.input, faqs)
        /\ EqualFAQs(last.input, faqs) = {} => last.source_faq = NoFAQ

-----------------------------------------------------------------------------
(* Properties of the moderation filter.                                     *)

\* C14: every message whose length is below 3 or above 500 characters is
\* rejected with the matching length reason (too short / too long), whatever
\* else the message contains.
C14_LengthReasons ==
    last.op = "moderate" =>
        /\ Len(last.input) < MIN_MESSAGE_LEN =>
              /\ last.status = 400
              /\ last.stage = "Message too short (minimum 3 characters)"
        /\ Len(last.input) > MAX_MESSAGE_LEN =>
              /\ last.status = 400
              /\ last.stage = "Message too long (maximum 500 characters)"

\* a message of 501 characters that repeats a profanity was rejected as too long
C14_Witness ==
    /\ last.op = "moderate"
    /\ Len(last.input) = MAX_MESSAGE_LEN + 1
    /\ Contains(last.input, W_SHIT)
    /\ last.stage = "Message too long (maximum 500 characters)"

\* the maximal runs of word characters of a text, as <<first, last>> places
TokenSpans(text) ==
    { p \in (DOMAIN text) \X (DOMAIN text) :
        /\ p[1] <= p[2]
        /\ \A k \in p[1]..p[2] : IsWordChar(text[k])
        /\ (p[1] = 1 \/ ~IsWordChar(text[p[1] - 1]))
        /\ (p[2] = Len(text) \/ ~IsWordChar(text[p[2] + 1])) }

\* some profanity word occurs in the text at a place that is not inside a
\* whitelisted word of the text
ProfaneOutsideWhitelist(text) ==
    LET lower == Lower(text)
    IN  \E word \in PROFANITY_WORDS : \E i \in 1..(Len(lower) - Len(word) + 1) :
            /\ SubSeq(lower, i, i + Len(word) - 1) = word
            /\ ~ \E p \in TokenSpans(lower) :
                    /\ p[1] <= i /\ i + Len(word) - 1 <= p[2]
                    /\ SubSeq(lower, p[1], p[2]) \in ACCEPTABLE_WORDS

\* the reasons of the checks that run before the profanity check
EarlierReasons ==
    { "Message too short (minimum 3 characters)",
      "Message too long (maximum 500 characters)",
      "Message contains too many special characters",
      "Message contains excessive repeated characters",
      "Message contains excessive capital letters" }

\* C15: a message that passes the earlier checks is rejected as inappropriate
\* exactly when some word of the profanity set occurs in it as a substring at
\* a place that is not inside a whitelisted benign word: "skills" is not
\* rejected, "this is shit" is rejected, and a profanity outside any
\* whitelisted word is rejected even when the message also contains a
\* whitelisted word that includes the same substring.
C15_ProfanityExactly ==
    (last.op = "moderate" /\ last.stage \notin EarlierReasons) =>
        ( last.stage = "Message contains inappropriate content"
            <=> ProfaneOutsideWhitelist(last.input) )

-----------------------------------------------------------------------------
(* Properties of the slide synthesizer.                                     *)

\* the provider output in the exact format: the title line, the BODY: line,
\* one bullet line per bullet
ExactFormat(title, bullets) ==
    JoinLines(<<TitleLine(title), MARK_BODY>> \o [k \in DOMAIN bullets |-> BulletLine(bullets[k])])

\* the bullet lists of one and of two bullets
BulletLists == UNION { [1..n -> SlideBullets] : n \in 1..(MaxLines - 2) }

\* the provider answered, and its text holds neither marker
LacksMarkers ==
    /\ last.status = 200
    /\ ~Contains(last.input, MARK_TITLE)
    /\ ~Contains(last.input, MARK_BODY)

-----------------------------------------------------------------------------
(* Properties of the conversation history.                                  *)

\* a history request is answered in this step
HistoryAnswered == last' # last /\ last'.op = "history"

\* C17: a history request for a session id that no conversation has is
\* answered 404; for an existing session it returns that session's messages,
\* each once, in ascending order_in_session; and the request changes no
\* stored record.
C17_HistoryOrderedReadOnly ==
    [][ HistoryAnswered =>
          /\ UNCHANGED <<conversations, messages, faqs, projects>>
          /\ ~conversations[last'.session_id].exists =>
                 last'.status = 404 /\ last'.message = <<>>
          /\ conversations[last'.session_id].exists =>
                 /\ last'.status = 200
                 /\ Len(last'.message) = Len(messages[last'.session_id])
                 /\ { last'.message[k].order_in_session : k \in DOMAIN last'.message }
                        = { messages[last'.session_id][k].order_in_session :
                                k \in DOMAIN messages[last'.session_id] }
                 /\ \A i, j \in DOMAIN last'.message :
                        i < j => last'.message[i].order_in_session
                                     < last'.message[j].order_in_session
      ]_vars

\* a history of three messages that were stored with the orders 3, 1, 2
C17_Witness ==
    /\ last.op = "history" /\ last.status = 200
    /\ Len(last.message) = 3
    /\ Len(messages[last.session_id]) = 3
    /\ messages[last.session_id][1].order_in_session = 3
    /\ messages[last.session_id][2].order_in_session = 1

-----------------------------------------------------------------------------
(* Properties of the featured questions.                                    *)

\* the FAQs that are both featured and active
FeaturedAndActive == { f \in DOMAIN faqs : faqs[f].is_featured /\ faqs[f].is_active }

\* the ids of the FAQs a reply lists
Listed == { last.message[k].faq_id : k \in DOMAIN last.message }

\* C18: the featured-questions operation returns FAQs that are both featured
\* and active, at most 6, highest priority first, when at least one exists;
\* it returns the 4 default questions tagged "default" when none exists; on
\* an internal error it returns the same 4 questions in a reply that is no
\* error.
C18_FeaturedOrDefault ==
    last.op = "featured" =>
        /\ last.status = 200
        /\ last.outcome = "error" => last.message = DEFAULT_QUESTIONS
        /\ (last.outcome = "ok" /\ FeaturedAndActive = {}) =>
              last.message = DEFAULT_QUESTIONS /\ last.stage = "default"
        /\ (last.outcome = "ok" /\ FeaturedAndActive # {}) =>
              /\ Listed \subseteq FeaturedAndActive
              /\ Cardinality(Listed) = Len(last.message)
              /\ Len(last.message) <= FEATURED_LIMIT
              /\ Len(last.message) = FEATURED_LIMIT \/ Listed = FeaturedAndActive
              /\ \A i, j \in DOMAIN last.message :
                    i < j => faqs[last.message[i].faq_id].priority
                                >= faqs[last.message[j].faq_id].priority
              /\ \A f \in FeaturedAndActive \ Listed : \A g \in Listed :
                    faqs[f].priority <= faqs[g].priority

\* seven FAQs are featured and active, of both priorities, and six are listed
C18_Witness ==
    /\ last.op = "featured" /\ last.outcome = "ok"
    /\ Cardinality(FeaturedAndActive) = FEATURED_LIMIT + 1
    /\ Len(last.message) = FEATURED_LIMIT
    /\ \E f, g \in FeaturedAndActive : faqs[f].priority # faqs[g].priority

-----------------------------------------------------------------------------
(* Properties of the word timestamps.                                       *)

\* the text holds letters, digits and whitespace only
NoPunctuation(text) == \A i \in DOMAIN text : IsWordChar(text[i]) \/ IsSpace(text[i])

\* C19: for every text of N space-separated words without punctuation the
\* estimation returns exactly N entries, in the order of the words; the start
\* times do not decrease from one entry to the next, and every entry has
\* end >= start.
C19_TimestampsPerWord ==
    (last.op = "timestamps" /\ NoPunctuation(last.input)) =>
        /\ Len(last.message) = Len(Split(last.input))
        /\ \A k \in DOMAIN last.message :
              /\ last.message[k].word = Split(last.input)[k]
              /\ last.message[k].end >= last.message[k].start
              /\ k > 1 => last.message[k].start >= last.message[k - 1].start

\* three words without punctuation got three entries at growing times
C19_Witness ==
    /\ last.op = "timestamps"
    /\ NoPunctuation(last.input)
    /\ Len(Split(last.input)) = 3
    /\ Len(last.message) = 3
    /\ last.message[3].start > last.message[2].start

-----------------------------------------------------------------------------
(* Properties of the FAQ audio.                                             *)

-----------------------------------------------------------------------------
(* Properties of concurrent chat requests.                                  *)

\* worker p's request passes the rate limiter in this step
PassesLimiter(p) ==
    /\ pc[p] = "admit" /\ pc'[p] # "admit"
    /\ ~ChatRateExceeded(req[p].recent_requests)

\* C21: the rate limiter's read-then-set is not atomic.  A request that is
\* admitted writes the count it read plus one, whatever the counter holds by
\* then, so the counter never runs ahead of the requests admitted in the
\* window and can fall behind them: with concurrent requests of one client
\* more than 10 can be admitted within one window.
C21_ReadThenSet ==
    /\ [][ \A p \in Workers :
             PassesLimiter(p) =>
                 chat_rate'[req[p].ip] = CacheSet(req[p].recent_requests + 1) ]_vars
    /\ [](\A ip \in IPs : CacheGet(chat_rate[ip]) <= admitted[ip])

\* more than 10 requests of one client were admitted within one window, and
\* the counter is behind them
C21_Witness ==
    \E ip \in IPs :
        /\ admitted[ip] > CHAT_RATE_LIMIT
        /\ CacheGet(chat_rate[ip]) < CHAT_RATE_LIMIT

\* worker q's turn waits to open its transaction on the conversation of
\* worker p's turn, which is inside its own
WaitsBehind(q, p) ==
    /\ p # q
    /\ pc[p] = "llm" /\ ~req[p].created
    /\ pc[q] = "txn" /\ req[q].session_id = req[p].conversation

-----------------------------------------------------------------------------
(* Chat requests on a conversation that already holds several messages.     *)

MaxMsgsRepeat == 4

\* the rows the admin console adds: visitor messages and a reply
RepeatRows == { <<"user_query", C_SKILLS>>, <<"user_query", Q_WORK>>,
                <<"ai_response", Q_WORK>> }

NextRepeat ==
    \/ \E ip \in OneClient, q \in RepeatQueries, sid \in {NoSession} \cup AdminSessions :
          ChatReceive("w1", ip, q, sid)
    \/ ChatAdmit("w1")
    \/ ChatBegin("w1")
    \/ ChatGenerate("w1", [ok |-> TRUE, text |-> R_PY, followup_ok |-> TRUE])
    \/ Tick(RATE_WINDOW)
    \/ \E s \in AdminSessions : AdminSaveConversation(s, 0)
    \/ \E s \in AdminSessions, row \in RepeatRows :
          AdminAddMessage(s, Len(messages[s]) + 1, row[1], row[2], NoFAQ, MaxMsgsRepeat)

SpecRepeat == Init /\ [][NextRepeat]_vars

\* the contents of the three user messages stored last in a conversation
ThreeMostRecent(rows) == Range(LastThree(UserContents(rows)))

\* equal when case and surrounding whitespace are ignored
SameText(a, b) == Lower(Strip(a)) = Lower(Strip(b))

\* worker p decides on a request for an existing conversation that passed the
\* rate limit, moderation and the session cap
ReachesRepeatCheck(p) ==
    /\ pc[p] = "admit" /\ pc'[p] # "admit"
    /\ req[p].session_id # NoSession
    /\ conversations[req[p].session_id].exists
    /\ ~ChatRateExceeded(req[p].recent_requests)
    /\ Moderation[req[p].query].is_valid
    /\ ~SessionCapReached(conversations[req[p].session_id].total_messages)

\* C24: a request on an existing conversation whose query equals, ignoring case
\* and surrounding whitespace, one of the conversation's three most recent user
\* messages is answered 400 and stores nothing; a query that differs from all
\* three goes on to the turn.
C24_RepeatedQueryRejected ==
    [][\A p \in Workers : ReachesRepeatCheck(p) =>
          IF \E c \in ThreeMostRecent(messages[req[p].session_id]) :
                 SameText(req[p].query, c)
          THEN /\ last'.status = 400 /\ last'.stage = "duplicate"
               /\ pc'[p] = "idle"
               /\ UNCHANGED <<conversations, messages>>
          ELSE /\ pc'[p] = "txn"
               /\ UNCHANGED last]_vars

\* a request was refused as a repeat in a conversation of four user messages of
\* which none is spelled as any query is, the oldest being a different text
C24_Witness ==
    /\ last.op = "chat" /\ last.stage = "duplicate"
    /\ LET texts == UserContents(messages["s1"])
       IN  /\ Len(texts) = MaxMsgsRepeat
           /\ texts[1] = Q_WORK
           /\ \A i \in 2..MaxMsgsRepeat : texts[i] = C_SKILLS

-----------------------------------------------------------------------------
(* Properties of the admission checks of a chat request.                    *)

\* the check that answers the request worker p holds, by the order empty query,
\* rate limit, moderation, session cap, repeated message; "none" if all pass
FirstRefusal(p) ==
    LET r == req[p]
        known == r.session_id # NoSession /\ conversations[r.session_id].exists
    IN  IF r.query = <<>> THEN "empty"
        ELSE IF r.recent_requests >= CHAT_RATE_LIMIT THEN "rate"
        ELSE IF ~validate_message_content(r.query).is_valid THEN "moderation"
        ELSE IF known /\ conversations[r.session_id].total_messages >= SESSION_CAP
        THEN "cap"
        ELSE IF known /\ \E c \in ThreeMostRecent(messages[r.session_id]) :
                            SameText(r.query, c)
        THEN "duplicate"
        ELSE "none"

\* the status each refusal is answered with
RefusalStatus == [empty |-> 400, rate |-> 429, moderation |-> 400, cap |-> 429,
                  duplicate |-> 400]

\* C25: the admission checks answer in the order empty query, rate limit,
\* moderation, session cap, repeated message. An empty query is refused without
\* touching the rate counter; a request the limiter refuses changes neither the
\* counter nor the stored conversations and messages; a request refused by
\* moderation, the session cap or the repeat check has taken one slot of the
\* rate limit and leaves every conversation and message unchanged.
C25_AdmissionOrder ==
    [][/\ \* an empty query never reaches the limiter
          (last' # last /\ last'.stage = "empty") =>
              /\ last'.status = RefusalStatus["empty"]
              /\ UNCHANGED <<chat_rate, conversations, messages, pc>>
       /\ \A p \in Workers : pc'[p] = "admit" => req'[p].query # <<>>
       /\ \A p \in Workers : (pc[p] = "admit" /\ pc'[p] # "admit") =>
              LET refusal == FirstRefusal(p)
                  ip == req[p].ip
              IN  /\ IF refusal = "none" THEN pc'[p] = "txn" /\ UNCHANGED last
                     ELSE /\ pc'[p] = "idle"
                          /\ last'.stage = refusal
                          /\ last'.status = RefusalStatus[refusal]
                  /\ UNCHANGED <<conversations, messages>>
                  /\ IF refusal = "rate" THEN UNCHANGED chat_rate
                     ELSE /\ chat_rate'[ip].count = req[p].recent_requests + 1
                          /\ chat_rate'[ip].ttl = RATE_WINDOW
                          /\ \A other \in IPs \ {ip} : chat_rate'[other] = chat_rate[other]
      ]_vars

\* a request refused at the session cap took the tenth slot of its window
C25_Witness ==
    /\ pc["w1"] = "idle"
    /\ last.op = "chat" /\ last.stage = "cap" /\ last.status = 429
    /\ CacheGet(chat_rate["ip1"]) = CHAT_RATE_LIMIT
    /\ conversations["s1"].total_messages >= SESSION_CAP

-----------------------------------------------------------------------------
(* The chat rate limiter with a clock finer than its window.                *)

\* the seconds that pass in one step of the clock
ClockSteps == {20, 40}

NextWindow ==
    \/ \E p \in Workers, ip \in OneClient : ChatReceive(p, ip, Q_SHORT, NoSession)
    \/ \E p \in Workers : ChatAdmit(p)
    \/ \E d \in ClockSteps : Tick(d)

SpecWindow == Init /\ [][NextWindow]_vars

\* worker p answers or passes the request it holds
DecidesAdmission(p) == pc[p] = "admit" /\ pc'[p] # "admit"

\* C26: a client the chat limiter blocks is admitted again once 60 seconds
\* have passed since its last admitted request, however many refused requests
\* it sent meanwhile: a refused request changes neither the counter nor its
\* time-to-live, every admitted request sets the time-to-live to 60 seconds
\* again, and 60 seconds after the last admitted request the counter is gone,
\* so that the request that reads it then is not refused by the limiter.
C26_WindowFromLastAdmitted ==
    /\ [][\A p \in Workers : DecidesAdmission(p) =>
             LET ip == req[p].ip
             IN  IF req[p].recent_requests >= CHAT_RATE_LIMIT
                 THEN /\ last'.stage = "rate" /\ last'.status = 429
                      /\ UNCHANGED <<chat_rate, idle_for>>
                 ELSE /\ pc'[p] = "txn" \/ last'.stage # "rate"
                      /\ chat_rate'[ip].ttl = RATE_WINDOW
                      /\ chat_rate'[ip].count = req[p].recent_requests + 1
                      /\ idle_for'[ip] = 0]_vars
    /\ [][\A p \in Workers : (pc[p] = "idle" /\ pc'[p] = "admit") =>
             (idle_for[req'[p].ip] >= RATE_WINDOW => req'[p].recent_requests = 0)]_vars
    /\ [](\A ip \in IPs : idle_for[ip] >= RATE_WINDOW => CacheGet(chat_rate[ip]) = 0)

\* a blocked client was refused 40 seconds after its last admitted request:
\* the counter is full and has the 20 seconds left it had before the refusal
C26_Witness ==
    /\ last.op = "chat" /\ last.stage = "rate" /\ last.status = 429
    /\ \A p \in Workers : pc[p] = "idle"
    /\ idle_for["ip1"] = 40
    /\ chat_rate["ip1"] = [count |-> CHAT_RATE_LIMIT, ttl |-> RATE_WINDOW - 40]

-----------------------------------------------------------------------------
(* Properties of the conversation a chat turn opens or loads.               *)

\* C27: a turn without a session token, or with a token that matches no
\* conversation, creates a conversation under a fresh token and returns that
\* token; a turn on an existing conversation leaves the conversation's
\* identity and client address as they were; no turn modifies another
\* conversation or its messages.
C27_CreatesOrKeepsConversation ==
    [][ \A p \in Workers : TurnEnds(p) =>
          LET conv == req[p].conversation
          IN  /\ IF req[p].created
                 THEN /\ ~conversations[conv].exists
                      /\ conversations'[conv].exists
                      /\ conversations'[conv].ip_address = req[p].ip
                      /\ last'.session_id = conv
                 ELSE /\ conversations'[conv].exists
                      /\ conversations'[conv].ip_address = conversations[conv].ip_address
              /\ \A s \in Sessions \ {conv} :
                    /\ conversations'[s] = conversations[s]
                    /\ messages'[s] = messages[s] ]_vars

-----------------------------------------------------------------------------
(* Properties of the slide a chat turn returns.                             *)

\* C28: a chat turn that passed the admission checks completes, and the
\* slide_title and slide_body of its reply are the ones stored on the AI
\* message, which a later conversation-history request returns.
C28_ReplySlideIsStored ==
    [][ \A p \in Workers : TurnEnds(p) =>
          LET conv == req[p].conversation
              n == Len(HeldBefore(p))
          IN  /\ last'.op = "chat" /\ last'.status = 200
              /\ Len(messages'[conv]) = n + 2
              /\ LET shown == MessageData(messages_all(messages'[conv])[n + 2])
                 IN  /\ shown.message_type = "ai_response"
                     /\ shown.slide_title = last'.slide_title
                     /\ shown.slide_body = last'.slide_body ]_vars

-----------------------------------------------------------------------------
(* FAQ.save() with its post_save receiver, save by save: portfolio/models.py *)
(* generate_faq_audio and voice_service.py generate_and_save_audio_for_faq.  *)

\* nested calls the interpreter allows before it raises RecursionError
RECURSION_LIMIT == 4

\* a response of blanks only
R_BLANK == <<" ", " ">>

\* instance.save(), `depth` saves deep: the row is written, then post_save
\* runs generate_faq_audio, which calls generate_and_save_audio_for_faq, whose
\* faq_obj.save() is the next save.  Returns the row stored in the end, the
\* calls of the provider, the saves made, and whether RecursionError was
\* raised (the except of generate_and_save_audio_for_faq catches it).
RECURSIVE faq_save(_, _, _)
faq_save(instance, outcome, depth) ==
    LET quiet == [row |-> instance, tts_calls |-> 0, saves |-> 1, overflow |-> FALSE]
    IN  IF depth > RECURSION_LIMIT
        THEN [row |-> instance, tts_calls |-> 0, saves |-> 0, overflow |-> TRUE]
        ELSE IF ~(instance.response # NoText /\ ~has_audio(instance)) THEN quiet
        ELSE IF Strip(instance.response) = <<>> THEN quiet
        ELSE IF has_audio(instance) THEN quiet
        ELSE LET generated == generate_audio_with_timestamps(instance.response, outcome)
             IN  IF generated.audio_data = NoAudio
                 THEN [quiet EXCEPT !.tts_calls = generated.tts_calls]
                 ELSE LET inner == faq_save([instance EXCEPT
                                                !.audio_file = generated.audio_data],
                                            outcome, depth + 1)
                      IN  [ row |-> inner.row,
                            tts_calls |-> generated.tts_calls + inner.tts_calls,
                            saves |-> 1 + inner.saves,
                            overflow |-> inner.overflow ]

\* FAQ.objects.create(...) or a later save of FAQ f with the response given;
\* the reply records the response saved, what the provider would return, the
\* provider calls and (as message_count) the saves made
SaveFAQ(f, response, outcome) ==
    LET instance == [ exists |-> TRUE, response |-> response, is_active |-> TRUE,
                      audio_file |-> faqs[f].audio_file ]
        done == faq_save(instance, Provider(tts_key, outcome), 1)
    IN  /\ faqs' = [faqs EXCEPT ![f] = done.row]
        /\ last' = [ NoReply EXCEPT !.op = "faq_save",
                                    !.status = IF done.overflow THEN 500 ELSE 200,
                                    !.input = response,
                                    !.provider = Provider(tts_key, outcome),
                                    !.tts_calls = done.tts_calls,
                                    !.message_count = done.saves ]
        /\ UNCHANGED <<chat_rate, voice_rate, sent, admitted, idle_for, conversations,
                       messages, projects, tts_key, pc, req>>

\* the responses a FAQ is saved with
SavedResponses == { NoText, R_BLANK, R_PY, R_OTHER }

NextFaqSave ==
    \/ \E f \in FAQIds, response \in SavedResponses,
          outcome \in {NoAudio, FAQ_AUDIO, FAQ_AUDIO_OTHER} : SaveFAQ(f, response, outcome)
    \/ \E ip \in OneClient, s \in AdminSessions, i \in 1..MaxMsgsVoice,
          outcome \in {NoAudio, MESSAGE_AUDIO} :
          GenerateMessageAudio(ip, s, i, outcome)
    \/ \E s \in AdminSessions : AdminSaveConversation(s, 0)
    \/ \E s \in AdminSessions, row \in VoiceRows :
          AdminAddMessage(s, Len(messages[s]) + 1, row.message_type, row.content,
                          row.source_faq, MaxMsgsVoice)
    \/ Tick(RATE_WINDOW)

SpecFaqSave == InitVoice /\ [][NextFaqSave]_vars

\* this step saves FAQ f, which has no audio, with a response that is not empty
SavesWithoutAudio(f) ==
    /\ last'.op = "faq_save" /\ last' # last
    /\ last'.input # NoText
    /\ faqs[f].audio_file = NoAudio

\* C29: saving a FAQ that has a response and no audio runs an audio generation
\* that terminates: it calls the provider at most once, the save made inside
\* the generation starts no further generation (two saves at most, no
\* recursion error), and when the provider fails the FAQ is saved with its
\* response and without audio.
C29_FaqSaveTerminates ==
    [][ \A f \in FAQIds : SavesWithoutAudio(f) =>
          /\ last'.status = 200
          /\ last'.tts_calls <= 1
          /\ last'.message_count <= 2
          /\ faqs'[f].exists /\ faqs'[f].response = last'.input
          /\ IF last'.provider = NoAudio \/ Strip(last'.input) = <<>>
             THEN faqs'[f].audio_file = NoAudio /\ last'.message_count = 1
             ELSE /\ faqs'[f].audio_file = last'.provider
                  /\ last'.tts_calls = 1 /\ last'.message_count = 2 ]_vars

\* a FAQ was saved with audio after one provider call and two saves
C29_Witness ==
    /\ last.op = "faq_save" /\ last.status = 200
    /\ last.tts_calls = 1 /\ last.message_count = 2
    /\ \E f \in FAQIds : faqs[f].response = last.input /\ faqs[f].audio_file = last.provider

-----------------------------------------------------------------------------
(* Properties of repeated audio requests for one message.                   *)

\* C30: audio generation for a message is idempotent.  Once a message has
\* stored audio, every further audio request for it that reaches the voice
\* service reports success, makes no call to the provider, does not take the
\* audio of the message's source FAQ, and leaves every message and every FAQ
\* as stored.
C30_StoredAudioIsFinal ==
    [][ \A s \in Sessions, i \in 1..MaxMsgsVoice :
          ( ReachesService(s, i) /\ messages[s][i].audio_file # NoAudio )
          => /\ last'.status = 200
             /\ last'.tts_calls = 0
             /\ messages' = messages
             /\ faqs' = faqs ]_vars

\* the latest request for a message succeeded without a provider call, and
\* the message keeps the audio synthesized for it although its source FAQ has
\* audio of its own by now
C30_Witness ==
    /\ last.op = "audio" /\ last.status = 200 /\ last.tts_calls = 0
    /\ \E s \in Sessions, i \in 1..MaxMsgsVoice :
          /\ last.message = <<s, i>>
          /\ i \in DOMAIN messages[s]
          /\ messages[s][i].audio_file = MESSAGE_AUDIO
          /\ messages[s][i].source_faq # NoFAQ
          /\ faqs[messages[s][i].source_faq].audio_file = FAQ_AUDIO

====
